---- MODULE Spec2Model ----
(***************************************************************************)
(* Connect2Bulk: the client-side session monitor (src/src/App.tsx) and the *)
(* userPool-then-identityPool data-access fallback                         *)
(* (ManageUsers.tsx, ManageTeams.tsx, AuthContext.tsx, useUserData.ts).    *)
(*                                                                         *)
(* SpecMonitor: one component using the useAuthSession hook. React runs    *)
(* the hook's effect (possibly several times, when a dependency changes),  *)
(* each run owning its own isMounted flag and timeoutId. Promise           *)
(* continuations run to completion; the effect cleanup, the timer, the     *)
(* resolution of fetchAuthSession/signOut and the re-render of the guard   *)
(* are separate steps of the event loop.                                   *)
(*                                                                         *)
(* SpecValid: isSessionValid applied to one session at one clock value.    *)
(*                                                                         *)
(* SpecData: one data operation at a time at one of the call sites,        *)
(* the backend answering each remote call with data, an error list or a    *)
(* rejection.                                                              *)
(*                                                                         *)
(* SpecTruck: the Add Truck modal of TruckBoard.tsx, one create at a time.  *)
(*                                                                         *)
(* SpecUser: executions of the user-data fetch (AuthProvider.fetchUserData, *)
(* the useUserData query function, the Sidebar load effect) running        *)
(* concurrently against one backend, one signed-in identity and one        *)
(* localStorage, each await being a separate step.                         *)
(*                                                                         *)
(* SpecMail: one invocation of the sendResetEmail cloud function.          *)
(*                                                                         *)
(* SpecTable: the ManageUsers table: paging, row selection, deleteUser     *)
(* calls and one applyBulkRole at a time, each await a separate step.      *)
(*                                                                         *)
(* SpecRole: the copies of the role normalizer applied to one stored value.*)
(*                                                                         *)
(* The variables fetches, lastDone, lateSet, signals, lastOutcome, calls   *)
(* and replies record what the code did (calls made, setters invoked);     *)
(* no guard of the model reads them, except that the clock does not        *)
(* advance while a signalled redirect is waiting for the route change.     *)
(***************************************************************************)
EXTENDS Integers, Sequences, FiniteSets, TLC

\* ---------------------------------------------------------------- bounds
\* how many times React runs the effect of one hook instance
MaxEffectRuns == 2
\* how many times the simulated clock is advanced
MaxTicks == 2
\* how many trucks are created on the Truck Board
MaxCreates == 2
\* how many executions of the user-data fetch are started
MaxExecs == 2
\* how many operations (delete, bulk role, add) the ManageUsers table starts
MaxOps == 2

\* ------------------------------------------------------ program constants
\* App.tsx:32  "- 300; // 5 min buffer"
BUFFER_SECONDS == 300
\* App.tsx:32  Date.now() / 1000
MS_PER_SECOND == 1000
\* App.tsx:85  5 * 60 * 1000
CHECK_INTERVAL_MS == 300000
\* ManageUsers.tsx:53  useState(15)
DEFAULT_ROWS == 15
\* ManageUsers.tsx:629  the smallest rows-per-page option
FEWEST_ROWS == 5

Null == "null"
\* timeoutId before setTimeout has run (App.tsx:69); no deadline is negative
NoTimer == 0 - 1
\* lastDone before any check of the run has completed
Never == 0 - 1

Gens == 1..MaxEffectRuns

\* Offsets of a token's exp claim from the current second, around both
\* candidate boundaries (+300 and -300) and the spec's example (+100).
ExpOffsets == {-301, -300, -299, 0, 100, 299, 300, 301}

\* What isSessionValid can be handed: null, a session with no tokens, tokens without an
\* access token, an access token whose payload is missing (inspecting it
\* raises a TypeError), a payload without exp, or a payload with exp.
SessionShapes == {"null", "noTokens", "noAccessToken", "noPayload", "noExp", "ok"}

\* Clock steps: just short of the interval, and one millisecond.
AdvanceSteps == {CHECK_INTERVAL_MS - 1, 1}

\* Values of Date.now() at which isSessionValid is probed.
ProbeTimes == {0, MS_PER_SECOND - 1, MS_PER_SECOND, CHECK_INTERVAL_MS,
               2 * CHECK_INTERVAL_MS + 1}

VARIABLES
  \* ---- useAuthSession hook state (App.tsx:42-44)
  session,      \* Null or a session record
  loading,      \* BOOLEAN
  error,        \* Null or an error tag
  \* ---- per effect run (App.tsx:68-69)
  isMounted,    \* [Gens -> BOOLEAN]
  timeoutId,    \* [Gens -> NoTimer or the deadline in ms]
  pc,           \* [Gens -> position of verifyAndRefreshSession]
  \* ---- React / environment
  mounted,      \* the component using the hook is mounted
  gen,          \* number of effect runs so far
  requireAuth,  \* options.requireAuth
  view,         \* what the guard last rendered
  now,          \* Date.now(), ms
  ticks,        \* clock advances so far
  \* ---- observation of the calls made
  fetches,      \* [Gens -> number of fetchAuthSession calls]
  lastDone,     \* [Gens -> time the last check of this run completed]
  lateSet,      \* a setter or navigate was invoked by a torn-down run
  signals,      \* redirect-to-login signals since the last valid check
  lastOutcome,  \* how the most recent completed check ended
  \* ---- isSessionValid on its own
  probe,        \* the input: a session and a value of Date.now()
  lastValid,    \* the evaluation: the input and what was returned
  \* ---- one data operation at one call site
  site,         \* the call site, or "none"
  arg,          \* what the operation is about: an id or the e-mail attribute
  dpc,          \* "idle", "primary", "secondary", "slim", "done"
  calls,        \* the remote calls issued so far, in order
  replies,      \* the backend's reply to each of them
  result,       \* how the operation ended and which call's data it used
  \* ---- TruckBoard component state (TruckBoard.tsx:17-35)
  isAddOpen,    \* the Add Truck modal is open
  adding,       \* a create is in flight
  createError,  \* the error shown in the modal (the component's error state)
  form,         \* the form fields
  payload,      \* the payload of the create in flight
  lastCreated,  \* the record handed to the listing
  refreshToken, \* the listing's refresh counter
  createReply,  \* the backend's reply to the last completed create
  \* ---- the role normalizers on their own
  roleIn,       \* the stored role value handed to the normalizers
  roleOut,      \* what each copy returned for it
  \* ---- the environment of the user-data fetch
  storage,      \* localStorage['c2b:myFirmId']: <<>> (absent) or a firm id
  storageMode,  \* "ok", "allThrow" (every access throws), "writeThrow"
  deny,         \* the authorization modes the backend refuses
  identity,     \* the e-mail attribute of the signed-in user
  \* ---- per execution of the fetch
  xpc,          \* [Execs -> the await the execution is suspended at]
  xkind,        \* [Execs -> "provider", "hook" or "sidebar"]
  xread,        \* [Execs -> persistedId as read]
  xfirm,        \* [Execs -> firmData]
  xrole,        \* [Execs -> roleVal]
  xlog,         \* [Execs -> the lookups issued, in order]
  xout,         \* [Execs -> what the execution produced]
  \* ---- AuthProvider state (AuthContext.tsx:50-52)
  userData,
  isLoading,
  userError,
  \* ---- observation
  written,      \* the values stored under 'c2b:myFirmId' so far
  \* ---- one invocation of the sendResetEmail function
  mailEvent,    \* the event the handler is invoked with
  fromEmail,    \* process.env.FROM_EMAIL
  mpc,          \* "idle", "sending", "done"
  mailResult,   \* what the handler returned
  sendOutcome,  \* how ses.send ended, if it was called
  \* ---- the ManageUsers table
  users,        \* the list, a sequence of rows
  selectedIds,
  bulkRole,
  bulkSaving,
  deletingId,
  page,
  rowsPerPage,
  del,          \* per row: where its deleteUser call stands
  bulkSel,      \* selectedIds as applyBulkRole captured it
  bulkRoleAt,   \* bulkRole as applyBulkRole captured it
  bulkTodo,     \* the ids applyBulkRole has still to update
  bulkStage,    \* "UL" or "IL": the update awaited for Head(bulkTodo)
  bulkDone,     \* the ids whose update passed (updatedCount is its size)
  \* ---- observation
  cognitoGone,  \* ids whose Cognito account the backend deleted
  dataTried,    \* ids for which User.delete was called
  rowGone,      \* ids whose User row the backend deleted
  ops           \* operations started so far

monitorVars == <<session, loading, error, isMounted, timeoutId, pc, mounted,
                 gen, requireAuth, view, now, ticks, fetches, lastDone,
                 lateSet, signals, lastOutcome>>

validVars == <<probe, lastValid>>

dataVars == <<site, arg, dpc, calls, replies, result>>

truckVars == <<isAddOpen, adding, createError, form, payload, lastCreated,
               refreshToken, createReply>>

\* the pages outside the session monitor and the fallback sites
roleVars == <<roleIn, roleOut>>

userVars == <<storage, storageMode, deny, identity, xpc, xkind, xread, xfirm,
              xrole, xlog, xout, userData, isLoading, userError, written>>

mailVars == <<mailEvent, fromEmail, mpc, mailResult, sendOutcome>>

tableVars == <<users, selectedIds, bulkRole, bulkSaving, deletingId, page,
               rowsPerPage, del, bulkSel, bulkRoleAt, bulkTodo, bulkStage,
               bulkDone, cognitoGone, dataTried, rowGone, ops>>

\* the cloud function and the ManageUsers table
restVars == <<mailVars, tableVars>>

\* what the ManageUsers table leaves alone
offTable == <<monitorVars, validVars, dataVars, truckVars, roleVars, userVars,
              mailVars>>

pageVars == <<truckVars, roleVars, userVars, restVars>>

\* what the session monitor leaves alone
offMonitor == <<validVars, dataVars, pageVars>>

vars == <<monitorVars, validVars, dataVars, pageVars>>

\* ------------------------------------------------------- isSessionValid
Session(shape, exp) == [shape |-> shape, exp |-> exp]
\* useState<AuthSession | null>(null), App.tsx:42
NoSession == Session("null", 0)
\* no evaluation of isSessionValid yet
NoEvaluation == [shape |-> "none", exp |-> 0, t |-> 0, ret |-> "none"]

\* App.tsx:23-33  the early return and the body of the try block: "true",
\* "false", or "throw" when reading accessToken.payload.exp raises.
isSessionValidBody(s, nowMs) ==
  IF s.shape \in {"null", "noTokens"} THEN "false"
  ELSE IF s.shape = "noAccessToken" THEN "false"
  ELSE IF s.shape = "noPayload" THEN "throw"
  ELSE IF s.shape = "noExp" THEN "false"
  ELSE IF s.exp > (nowMs \div MS_PER_SECOND) - BUFFER_SECONDS THEN "true"
  ELSE "false"

\* The inspection without its catch: the exception propagates.
isSessionValidNoCatch(s, nowMs) == isSessionValidBody(s, nowMs)

\* App.tsx:22-38
isSessionValid(s, nowMs) ==
  LET r == isSessionValidBody(s, nowMs)
  IN IF r = "throw" THEN "false" ELSE r

\* ------------------------------------------------------------ the effect
\* A 5-minute timer armed with the delay written in seconds.
ArmTimerSeconds(nowMs) == nowMs + CHECK_INTERVAL_MS \div MS_PER_SECOND

\* App.tsx:85  setTimeout(verifyAndRefreshSession, 5 * 60 * 1000)
ArmTimer(nowMs) == nowMs + CHECK_INTERVAL_MS

\* A cleanup that clears the flag but leaves the timer armed.
CleanupTimerKept(g) == timeoutId[g]

\* App.tsx:100-103  the timer of run g after the effect cleanup
CleanupTimer(g) == NoTimer

\* App.tsx:100-103  effect cleanup of run g
Cleanup(g) ==
  /\ isMounted' = [isMounted EXCEPT ![g] = FALSE]
  /\ timeoutId' = [timeoutId EXCEPT ![g] = CleanupTimer(g)]

\* App.tsx:71-76  verifyAndRefreshSession up to the await of
\* fetchAuthSession inside checkSession (App.tsx:49)
StartCheck(g, flags) ==
  IF flags[g]
  THEN /\ loading' = TRUE
       /\ pc' = [pc EXCEPT ![g] = "fetching"]
       /\ fetches' = [fetches EXCEPT ![g] = @ + 1]
  ELSE /\ pc' = [pc EXCEPT ![g] = "ended"]
       /\ UNCHANGED <<loading, fetches>>

\* App.tsx:52-53, 62  the setters checkSession calls, unguarded: React applies
\* them while the component is mounted, also when run g was cleaned up.
SetState(g, s, e) ==
  /\ session' = (IF mounted THEN s ELSE session)
  /\ error' = (IF mounted THEN e ELSE error)
  /\ lateSet' = (lateSet \/ ~isMounted[g])

\* App.tsx:78-86  verifyAndRefreshSession after "await checkSession()".
\* checkSession catches every rejection and returns false, so the catch of
\* verifyAndRefreshSession (App.tsx:87-95) is never entered.
Continue(g, isValid) ==
  /\ lastDone' = [lastDone EXCEPT ![g] = now]
  /\ IF isMounted[g]
     THEN /\ signals' = (IF isValid THEN 0
                         ELSE IF requireAuth THEN signals + 1 ELSE signals)
          /\ loading' = FALSE
          /\ timeoutId' = [timeoutId EXCEPT ![g] = ArmTimer(now)]
          /\ pc' = [pc EXCEPT ![g] = "idle"]
     ELSE /\ pc' = [pc EXCEPT ![g] = "ended"]
          /\ UNCHANGED <<signals, loading, timeoutId>>

\* App.tsx:67-98  React runs the effect for the first time after mount
RunEffect ==
  /\ mounted /\ gen = 0
  /\ gen' = 1
  /\ isMounted' = [isMounted EXCEPT ![1] = TRUE]
  /\ StartCheck(1, isMounted')
  /\ UNCHANGED <<session, error, timeoutId, mounted, requireAuth, view, now,
                 ticks, lastDone, lateSet, signals>>
  /\ UNCHANGED lastOutcome
  /\ UNCHANGED offMonitor

\* App.tsx:67-104  a dependency (checkSession, navigate, options.requireAuth)
\* changed: React runs the cleanup of the previous run, then the effect again
ReRunEffect ==
  /\ mounted /\ gen >= 1 /\ gen < MaxEffectRuns
  /\ gen' = gen + 1
  /\ isMounted' = [isMounted EXCEPT ![gen] = FALSE, ![gen + 1] = TRUE]
  /\ timeoutId' = [timeoutId EXCEPT ![gen] = CleanupTimer(gen)]
  /\ StartCheck(gen + 1, isMounted')
  /\ UNCHANGED <<session, error, mounted, requireAuth, view, now, ticks,
                 lastDone, lateSet, signals>>
  /\ UNCHANGED lastOutcome
  /\ UNCHANGED offMonitor

\* App.tsx:100-103  the component is removed: the cleanup of the current run
Unmount ==
  /\ mounted /\ gen >= 1
  /\ mounted' = FALSE
  /\ Cleanup(gen)
  /\ UNCHANGED <<session, loading, error, pc, gen, requireAuth, view, now,
                 ticks, fetches, lastDone, lateSet,
                 signals>>
  /\ UNCHANGED lastOutcome
  /\ UNCHANGED offMonitor

\* App.tsx:49-59, 78-86  fetchAuthSession resolves with session s
FetchResolve(g, s) ==
  /\ pc[g] = "fetching"
  /\ LET v == isSessionValid(s, now) IN
     IF v = "true"
        THEN /\ SetState(g, s, Null)
             /\ Continue(g, TRUE)
             /\ lastOutcome' = "valid"
        ELSE IF v = "false"
        THEN /\ pc' = [pc EXCEPT ![g] = "signingOut"]
             /\ UNCHANGED <<session, error, lateSet, lastDone, signals,
                            loading, timeoutId, lastOutcome>>
        ELSE /\ SetState(g, session, "checkFailed")
             /\ Continue(g, FALSE)
             /\ lastOutcome' = "failed"
  /\ UNCHANGED <<isMounted, mounted, gen, requireAuth, view, now, ticks,
                 fetches>>
  /\ UNCHANGED offMonitor

\* App.tsx:60-63, 78-86  fetchAuthSession rejects
FetchReject(g) ==
  /\ pc[g] = "fetching"
  /\ SetState(g, session, "fetchFailed")
  /\ Continue(g, FALSE)
  /\ UNCHANGED <<isMounted, mounted, gen, requireAuth, view, now, ticks,
                 fetches>>
  /\ lastOutcome' = "failed"
  /\ UNCHANGED offMonitor

\* App.tsx:58-59, 78-86  signOut resolves: checkSession returns false
SignOutResolve(g) ==
  /\ pc[g] = "signingOut"
  /\ Continue(g, FALSE)
  /\ UNCHANGED <<session, error, lateSet, isMounted, mounted, gen,
                 requireAuth, view, now, ticks, fetches>>
  /\ lastOutcome' = "invalid"
  /\ UNCHANGED offMonitor

\* App.tsx:58, 60-63, 78-86  signOut rejects: the catch of checkSession
SignOutReject(g) ==
  /\ pc[g] = "signingOut"
  /\ SetState(g, session, "signOutFailed")
  /\ Continue(g, FALSE)
  /\ UNCHANGED <<isMounted, mounted, gen, requireAuth, view, now, ticks,
                 fetches>>
  /\ lastOutcome' = "invalid"
  /\ UNCHANGED offMonitor

\* App.tsx:85, 71-76  the timer of run g fires
TimerFire(g) ==
  /\ timeoutId[g] # NoTimer /\ now >= timeoutId[g]
  /\ pc[g] \in {"idle", "ended"}
  /\ timeoutId' = [timeoutId EXCEPT ![g] = NoTimer]
  /\ StartCheck(g, isMounted)
  /\ UNCHANGED <<session, error, isMounted, mounted, gen, requireAuth, view,
                 now, ticks, lastDone, lateSet, signals>>
  /\ UNCHANGED lastOutcome
  /\ UNCHANGED offMonitor

\* App.tsx:135-136, 143-147  what the component using the hook renders
Rendered ==
  IF loading THEN "null"
  ELSE IF ~requireAuth THEN "children"
  ELSE IF session # NoSession THEN "children" ELSE "Navigate"

\* App.tsx:140-148  React re-renders the guard after a state change; a newly
\* rendered <Navigate to="/login"> signals the redirect.
Render ==
  /\ mounted /\ view # Rendered
  /\ view' = Rendered
  /\ signals' = (IF Rendered = "Navigate" THEN signals + 1 ELSE signals)
  /\ UNCHANGED <<session, loading, error, isMounted, timeoutId, pc, mounted,
                 gen, requireAuth, now, ticks, fetches, lastDone, lateSet>>
  /\ UNCHANGED lastOutcome
  /\ UNCHANGED offMonitor

\* The clock. A signalled redirect replaces the route, which removes the
\* guard long before the clock advances by a step of the model.
Advance(d) ==
  /\ ticks < MaxTicks
  /\ ~(mounted /\ signals > 0)
  /\ now' = now + d
  /\ ticks' = ticks + 1
  /\ UNCHANGED <<session, loading, error, isMounted, timeoutId, pc, mounted,
                 gen, requireAuth, view, fetches, lastDone, lateSet, signals>>
  /\ UNCHANGED lastOutcome
  /\ UNCHANGED offMonitor

\* App.tsx:42-45, 68-69  the hook right after the first render
InitHook ==
  /\ session = NoSession
  /\ loading = TRUE
  /\ error = Null
  /\ isMounted = [g \in Gens |-> FALSE]
  /\ timeoutId = [g \in Gens |-> NoTimer]
  /\ pc = [g \in Gens |-> "unborn"]
  /\ mounted = TRUE
  /\ gen = 0
  /\ view = "null"
  /\ now = 0
  /\ ticks = 0
  /\ fetches = [g \in Gens |-> 0]
  /\ lastDone = [g \in Gens |-> Never]
  /\ lateSet = FALSE
  /\ signals = 0
  /\ lastOutcome = "none"

NoProbe == [s |-> NoSession, nowMs |-> 0]

\* no data operation running
\* TruckBoard.tsx:25-35  useState of the form: every field empty
EmptyForm ==
  [truck_number |-> <<>>, available_date |-> <<>>, origin |-> <<>>,
   trailer_type |-> <<>>]
\* TruckBoard.tsx:24  useState<string | null>(null), or a message
NoError == [set |-> FALSE, msg |-> <<>>]
ErrorMsg(m) == [set |-> TRUE, msg |-> m]
\* TruckBoard.tsx:18  useState<any | null>(null)
NoTruck == [from |-> "none", truck |-> EmptyForm]
\* no create has completed
NoReply == [kind |-> "none", msg |-> <<>>, data |-> "none", errors |-> <<>>]

\* TruckBoard.tsx:17-35
InitNoTruck ==
  /\ isAddOpen = FALSE
  /\ adding = FALSE
  /\ createError = NoError
  /\ form = EmptyForm
  /\ payload = EmptyForm
  /\ lastCreated = NoTruck
  /\ refreshToken = 0
  /\ createReply = NoReply

\* a value of any type: null, undefined, a number or a string
Value(kind, s) == [kind |-> kind, s |-> s]
NullValue == Value("null", <<>>)
\* no normalizer has been applied
NoRoleOut == [done |-> FALSE]

InitNoRole ==
  /\ roleIn = NullValue
  /\ roleOut = NoRoleOut

Execs == 1..MaxExecs
\* getItem returned null; firmData is null
NoId == <<>>
NoFirm == [id |-> <<>>, administrator_email |-> <<>>, firm_name |-> <<>>]
NoUserData == [status |-> "none", name |-> <<>>, email |-> <<>>,
               role |-> <<>>, company |-> <<>>]

\* AuthContext.tsx:50-52 and the locals of an execution not yet started
InitExecs ==
  /\ xpc = [e \in Execs |-> "idle"]
  /\ xkind = [e \in Execs |-> "provider"]
  /\ xread = [e \in Execs |-> NoId]
  /\ xfirm = [e \in Execs |-> NoFirm]
  /\ xrole = [e \in Execs |-> <<>>]
  /\ xlog = [e \in Execs |-> <<>>]
  /\ xout = [e \in Execs |-> NoUserData]
  /\ userData = NoUserData
  /\ isLoading = TRUE
  /\ userError = FALSE
  /\ written = {}

InitNoUser ==
  /\ storage = NoId
  /\ storageMode = "ok"
  /\ deny = {}
  /\ identity = <<>>
  /\ InitExecs

\* an event carrying nothing
NoEvent == [kind |-> "direct", to |-> <<>>, resetUrl |-> <<>>]

InitNoMail ==
  /\ mailEvent = NoEvent
  /\ fromEmail = <<>>
  /\ mpc = "idle"
  /\ mailResult = "none"
  /\ sendOutcome = "none"

\* The rows loadUsers put in the ManageUsers list, in the order of the list,
\* and the id of the row an addition creates.
UserIds == <<"u1", "u2", "u3", "u4", "u5", "u6">>
NewId == "u7"
\* the rows whose checkbox the administrator uses, and those whose Delete
\* button
CheckboxRows == {"u1", "u2"}
DeleteRows == {"u1", "u2", "u6"}
\* ManageUsers.tsx:56  useState<Role>('MEMBER')
DEFAULT_ROLE == <<"M", "E", "M", "B", "E", "R">>

\* ManageUsers.tsx:53-58  the table before any event
InitTableState ==
  /\ selectedIds = {}
  /\ bulkRole = DEFAULT_ROLE
  /\ bulkSaving = FALSE
  /\ deletingId = Null
  /\ page = 0
  /\ rowsPerPage = DEFAULT_ROWS
  /\ del = [id \in DeleteRows |-> "idle"]
  /\ bulkSel = {}
  /\ bulkRoleAt = DEFAULT_ROLE
  /\ bulkTodo = <<>>
  /\ bulkStage = "UL"
  /\ bulkDone = {}
  /\ cognitoGone = {}
  /\ dataTried = {}
  /\ rowGone = {}
  /\ ops = 0

InitNoTable == users = <<>> /\ InitTableState

InitNoRest == InitNoMail /\ InitNoTable

InitNoPages == InitNoTruck /\ InitNoRole /\ InitNoUser /\ InitNoRest

InitNoData ==
  /\ site = "none"
  /\ arg = <<>>
  /\ dpc = "idle"
  /\ calls = <<>>
  /\ replies = <<>>
  /\ result = [status |-> "none", from |-> 0, msg |-> <<>>]

InitMonitor ==
  /\ InitHook
  /\ requireAuth \in BOOLEAN
  /\ probe = NoProbe
  /\ lastValid = NoEvaluation
  /\ InitNoData
  /\ InitNoPages

\* What fetchAuthSession resolves with in the monitor: a session without
\* tokens, a token that expired 300 s ago, a token that expires in 100 s.
FetchedSessions ==
  {Session("noTokens", 0)}
    \cup {Session("ok", (now \div MS_PER_SECOND) + off) : off \in {-300, 100}}

NextMonitor ==
  \/ RunEffect
  \/ ReRunEffect
  \/ Unmount
  \/ \E g \in Gens : \E s \in FetchedSessions : FetchResolve(g, s)
  \/ \E g \in Gens : FetchReject(g)
  \/ \E g \in Gens : SignOutResolve(g)
  \/ \E g \in Gens : SignOutReject(g)
  \/ \E g \in Gens : TimerFire(g)
  \/ Render
  \/ \E d \in AdvanceSteps : Advance(d)

SpecMonitor == InitMonitor /\ [][NextMonitor]_vars

\* ------------------------------------------- isSessionValid on its own
Sessions(t) ==
  {Session(sh, 0) : sh \in SessionShapes \ {"ok"}}
    \cup {Session("ok", t + off) : off \in ExpOffsets}

Probes ==
  {[s |-> s, nowMs |-> n] :
     s \in UNION {Sessions(m \div MS_PER_SECOND) : m \in ProbeTimes},
     n \in ProbeTimes}

InitValid ==
  /\ InitHook
  /\ requireAuth = FALSE
  /\ probe \in Probes
  /\ lastValid = NoEvaluation
  /\ InitNoData
  /\ InitNoPages

\* App.tsx:51  isSessionValid(currentSession)
Evaluate ==
  /\ lastValid = NoEvaluation
  /\ lastValid' = [shape |-> probe.s.shape, exp |-> probe.s.exp,
                   t |-> probe.nowMs \div MS_PER_SECOND,
                   ret |-> isSessionValid(probe.s, probe.nowMs)]
  /\ UNCHANGED <<monitorVars, probe, dataVars, pageVars>>

NextValid == Evaluate

SpecValid == InitValid /\ [][NextValid]_vars

\* ------------------------------------------------- data-access fallback
\* Strings the code inspects are sequences of characters.
UpperCase == <<"A", "B", "C", "D", "E", "F", "G", "H", "I", "J", "K", "L", "M", "N", "O", "P", "Q", "R", "S", "T", "U", "V", "W", "X", "Y", "Z">>
LowerCase == <<"a", "b", "c", "d", "e", "f", "g", "h", "i", "j", "k", "l", "m", "n", "o", "p", "q", "r", "s", "t", "u", "v", "w", "x", "y", "z">>

\* String.prototype.toLowerCase on one character
ToLowerChar(c) ==
  IF \E i \in 1..Len(UpperCase) : UpperCase[i] = c
  THEN LowerCase[CHOOSE i \in 1..Len(UpperCase) : UpperCase[i] = c]
  ELSE c

\* String.prototype.toLowerCase (AuthContext.tsx:61, useUserData.ts:41)
ToLower(s) == [i \in 1..Len(s) |-> ToLowerChar(s[i])]

\* /pat/i.test(s): s contains pat, letter case ignored
TestI(pat, s) ==
  \E i \in 1..(Len(s) - Len(pat) + 1) :
    \A k \in 1..Len(pat) : ToLowerChar(s[i + k - 1]) = ToLowerChar(pat[k])

\* s contains pat, letter for letter
Contains(pat, s) ==
  \E i \in 1..(Len(s) - Len(pat) + 1) :
    \A k \in 1..Len(pat) : s[i + k - 1] = pat[k]

NOT_AUTHORIZED == <<"N", "o", "t", " ", "A", "u", "t", "h", "o", "r", "i", "z", "e", "d">>
UNAUTHORIZED == <<"U", "n", "a", "u", "t", "h", "o", "r", "i", "z", "e", "d">>
MISSING_CREDENTIALS == <<"M", "i", "s", "s", "i", "n", "g", " ", "c", "r", "e", "d", "e", "n", "t", "i", "a", "l", "s">>
SERIALIZE_VALUE == <<"s", "e", "r", "i", "a", "l", "i", "z", "e", " ", "v", "a", "l", "u", "e">>
INVALID_ENUM == <<"I", "n", "v", "a", "l", "i", "d", " ", "i", "n", "p", "u", "t", " ", "f", "o", "r", " ", "E", "n", "u", "m">>

\* messages the backend fails with
MsgNotAuthorized == NOT_AUTHORIZED
MsgNotAuthorizedLower == ToLower(NOT_AUTHORIZED)
MsgMissingCredentials == MISSING_CREDENTIALS
MsgOther == <<"S", "o", "m", "e", " ", "o", "t", "h", "e", "r", " ", "e", "r", "r", "o", "r">>
MsgEnum == <<"F", "a", "i", "l", "e", "d", " ", "t", "o", " ", "s", "e", "r", "i", "a", "l", "i", "z", "e", " ", "v", "a", "l", "u", "e">>
MsgX == <<"x">>

RejectMsgs == {MsgNotAuthorized, MsgNotAuthorizedLower, MsgMissingCredentials,
               MsgOther, MsgEnum}
ErrorLists == {<<MsgX>>, <<MsgNotAuthorized>>, <<MsgX, MsgEnum>>}

\* errors.map(e => e.message).join(', ')   (ManageUsers.tsx:66)
RECURSIVE Join(_)
Join(errs) ==
  IF Len(errs) = 0 THEN <<>>
  ELSE IF Len(errs) = 1 THEN errs[1]
  ELSE errs[1] \o <<",", " ">> \o Join(Tail(errs))

\* A reply of the backend: the promise rejects with a message, or resolves
\* with { data, errors }.
Rejected(m) == [kind |-> "reject", msg |-> m, data |-> "none", errors |-> <<>>]
Resolved(d, errs) == [kind |-> "resolve", msg |-> <<>>, data |-> d, errors |-> errs]

Replies ==
  {Rejected(m) : m \in RejectMsgs}
    \cup {Resolved("row", <<>>), Resolved("empty", <<>>)}
    \cup {Resolved("none", e) : e \in ErrorLists}

\* The call sites.
\* ManageUsers.tsx:222-247, ManageTeams.tsx:161-227
CatchSites == {"saveEditRole", "onAddTeam"}
\* ManageUsers.tsx:60-102, ManageTeams.tsx:69-113
EnumSites == {"loadUsers", "loadManagers"}
\* AuthContext.tsx:67-81, AuthContext.tsx:113-130, useUserData.ts:92-108
TryListSites == {"authUser", "authFirmByEmail", "hookFirmByEmail"}
Sites == CatchSites \cup EnumSites \cup TryListSites

\* the e-mail attribute of the signed-in identity, as typed at sign-up
Emails == {<<"B", "o", "b", "@", "x", ".", "i", "o">>, <<"a", "m", "y", "@", "x", ".", "i", "o">>}
RecordId == <<"i", "d", "1">>
Args(s) == IF s \in TryListSites THEN Emails ELSE {RecordId}

Call(mode, a, slim) == [mode |-> mode, args |-> a, slim |-> slim]

\* ManageUsers.tsx:71, 186, 231; ManageTeams.tsx:80, 135, 197
isAuth(msg) == TestI(NOT_AUTHORIZED, msg) \/ TestI(UNAUTHORIZED, msg)

\* An enum fallback taken whatever the message.
isEnumSerializeAlways(msg) == TRUE

\* ManageUsers.tsx:72, 80; ManageTeams.tsx:81, 90
isEnumSerialize(msg) == TestI(SERIALIZE_VALUE, msg) \/ TestI(INVALID_ENUM, msg)

\* Only the first message of an error list is kept.
FailureFirstOnly(r) == IF r.kind = "reject" THEN r.msg ELSE r.errors[1]

\* what the catch block reads: String(err?.message ?? err), where a reply
\* with a non-empty error list was turned into new Error(joined messages)
\* inside the try (ManageUsers.tsx:66, 70)
Failure(r) == IF r.kind = "reject" THEN r.msg ELSE Join(r.errors)
Succeeded(r) == r.kind = "resolve" /\ Len(r.errors) = 0

\* AuthContext.tsx:37-47, useUserData.ts:19-29  tryList, then the first row
\* (AuthContext.tsx:73): a row, or nothing
TryListRow(r) ==
  IF r.kind = "reject" THEN "none"
  ELSE IF Len(r.errors) > 0 THEN "none"
  ELSE IF r.data = "row" THEN "row" ELSE "none"

\* the filter value of the userPool lookup: email (AuthContext.tsx:61, 68, 115)
PrimaryArgs(s, a) == IF s \in TryListSites THEN ToLower(a) ELSE a

\* the filter value of the identityPool lookup: email in AuthContext.tsx:76, 124
\* and useUserData.ts:54, emailRaw in useUserData.ts:102
SecondaryArgs(s, a) ==
  IF s = "hookFirmByEmail" THEN a
  ELSE IF s \in TryListSites THEN ToLower(a)
  ELSE a

Done(status, from, msg) ==
  /\ dpc' = "done"
  /\ result' = [status |-> status, from |-> from, msg |-> msg]
  /\ UNCHANGED calls

Issue(next, c) ==
  /\ dpc' = next
  /\ calls' = Append(calls, c)
  /\ UNCHANGED result

\* the handler starts: the call under userPool
\* (ManageUsers.tsx:65, 227; ManageTeams.tsx:75, 192; AuthContext.tsx:67-71)
Begin(s, a) ==
  /\ dpc = "idle"
  /\ site' = s
  /\ arg' = a
  /\ Issue("primary", Call("userPool", PrimaryArgs(s, a), FALSE))
  /\ UNCHANGED replies
  /\ UNCHANGED <<monitorVars, validVars, pageVars>>

\* ManageUsers.tsx:64-95, 226-237; ManageTeams.tsx:73-105, 191-204
\* the userPool call returns at a try/catch site
PrimaryReturns(r) ==
  /\ dpc = "primary" /\ site \in CatchSites \cup EnumSites
  /\ replies' = Append(replies, r)
  /\ IF Succeeded(r) THEN Done("ok", 1, <<>>)
     ELSE IF isAuth(Failure(r))
     THEN Issue("secondary", Call("identityPool", SecondaryArgs(site, arg), FALSE))
     ELSE IF site \in EnumSites /\ isEnumSerialize(Failure(r))
     THEN Issue("slim", Call("userPool", arg, TRUE))
     ELSE Done("failed", 0, Failure(r))
  /\ UNCHANGED <<site, arg>>
  /\ UNCHANGED <<monitorVars, validVars, pageVars>>

\* ManageUsers.tsx:74-87, 232-233; ManageTeams.tsx:83-97, 198-200
\* the identityPool call returns at a try/catch site
SecondaryReturns(r) ==
  /\ dpc = "secondary" /\ site \in CatchSites \cup EnumSites
  /\ replies' = Append(replies, r)
  /\ IF Succeeded(r) THEN Done("ok", 2, <<>>)
     ELSE IF site \in EnumSites /\ isEnumSerialize(Failure(r))
     THEN Issue("slim", Call("identityPool", arg, TRUE))
     ELSE Done("failed", 0, Failure(r))
  /\ UNCHANGED <<site, arg>>
  /\ UNCHANGED <<monitorVars, validVars, pageVars>>

\* ManageUsers.tsx:82-83, 90-91; ManageTeams.tsx:92-93, 100-101
\* the list without the role field returns: its errors are not read
SlimReturns(r) ==
  /\ dpc = "slim"
  /\ replies' = Append(replies, r)
  /\ IF r.kind = "reject" THEN Done("failed", 0, r.msg)
     ELSE Done("ok", Len(calls), <<>>)
  /\ UNCHANGED <<site, arg>>
  /\ UNCHANGED <<monitorVars, validVars, pageVars>>

\* AuthContext.tsx:67-81, 114-129; useUserData.ts:45-59, 93-107
\* the userPool lookup returns at a tryList site
TryListPrimaryReturns(r) ==
  /\ dpc = "primary" /\ site \in TryListSites
  /\ replies' = Append(replies, r)
  /\ IF TryListRow(r) # "none" THEN Done("ok", 1, <<>>)
     ELSE Issue("secondary", Call("identityPool", SecondaryArgs(site, arg), FALSE))
  /\ UNCHANGED <<site, arg>>
  /\ UNCHANGED <<monitorVars, validVars, pageVars>>

\* AuthContext.tsx:75-81, 123-129; useUserData.ts:53-59, 101-107
\* the identityPool lookup returns at a tryList site: a row or nothing
TryListSecondaryReturns(r) ==
  /\ dpc = "secondary" /\ site \in TryListSites
  /\ replies' = Append(replies, r)
  /\ IF Succeeded(r) THEN Done("ok", 2, <<>>)
     ELSE Done("ok", 0, <<>>)
  /\ UNCHANGED <<site, arg>>
  /\ UNCHANGED <<monitorVars, validVars, pageVars>>

InitData ==
  /\ InitHook
  /\ requireAuth = FALSE
  /\ probe = NoProbe
  /\ lastValid = NoEvaluation
  /\ InitNoData
  /\ InitNoPages

NextData ==
  \/ \E s \in Sites : \E a \in Args(s) : Begin(s, a)
  \/ \E r \in Replies : PrimaryReturns(r)
  \/ \E r \in Replies : SecondaryReturns(r)
  \/ \E r \in Replies : SlimReturns(r)
  \/ \E r \in Replies : TryListPrimaryReturns(r)
  \/ \E r \in Replies : TryListSecondaryReturns(r)

SpecData == InitData /\ [][NextData]_vars

\* ------------------------------------------------ TruckBoard: Add Truck
Digits == <<"0", "1", "2", "3", "4", "5", "6", "7", "8", "9">>
IsDigit(c) == \E i \in 1..Len(Digits) : Digits[i] = c
DigitVal(c) == (CHOOSE i \in 1..Len(Digits) : Digits[i] = c) - 1

\* parseInt(s, 10) of a string of digits
RECURSIVE ParseInt(_)
ParseInt(s) ==
  IF Len(s) = 0 THEN 0
  ELSE 10 * ParseInt(SubSeq(s, 1, Len(s) - 1)) + DigitVal(s[Len(s)])

\* String.prototype.trim
RECURSIVE TrimStart(_)
TrimStart(s) ==
  IF Len(s) > 0 /\ Head(s) = " " THEN TrimStart(Tail(s)) ELSE s
RECURSIVE TrimEnd(_)
TrimEnd(s) ==
  IF Len(s) > 0 /\ s[Len(s)] = " " THEN TrimEnd(SubSeq(s, 1, Len(s) - 1))
  ELSE s
Trim(s) == TrimEnd(TrimStart(s))

\* TruckBoard.tsx:137  /^([0-9]{4})-(\d{2})-(\d{2})$/
IsDateFormat(s) ==
  /\ Len(s) = 10
  /\ s[5] = "-" /\ s[8] = "-"
  /\ \A i \in {1, 2, 3, 4, 6, 7, 9, 10} : IsDigit(s[i])

\* TruckBoard.tsx:140-146  the range checks on year, month and day
IsDateInRange(s) ==
  LET year == ParseInt(SubSeq(s, 1, 4))
      month == ParseInt(SubSeq(s, 6, 7))
      day == ParseInt(SubSeq(s, 9, 10))
  IN /\ year >= 1900 /\ year <= 2100
     /\ month >= 1 /\ month <= 12
     /\ day >= 1 /\ day <= 31

\* TruckBoard.tsx:126-176  validateForm: TRUE when it returns null. The
\* optional fields are left empty. Whether a non-empty trailer type is one
\* of TRAILER_TYPES_SET (./constants) is given by allowed.
ValidateOk(f, allowed) ==
  /\ Len(Trim(f.truck_number)) > 0
  /\ Len(Trim(f.truck_number)) <= 50
  /\ Len(Trim(f.available_date)) > 0
  /\ IsDateFormat(Trim(f.available_date))
  /\ IsDateInRange(Trim(f.available_date))
  /\ Len(Trim(f.origin)) > 0
  /\ Len(Trim(f.trailer_type)) > 0
  /\ allowed

\* TruckBoard.tsx:189-200  the payload: the fields, trimmed
Payload(f) ==
  [truck_number |-> Trim(f.truck_number),
   available_date |-> Trim(f.available_date),
   origin |-> Trim(f.origin),
   trailer_type |-> Trim(f.trailer_type)]

MsgValidation == <<"i", "n", "v", "a", "l", "i", "d">>
MsgPleaseFill == <<"P", "l", "e", "a", "s", "e", " ", "f", "i", "l", "l">>
\* TruckBoard.tsx:39-44  generateTruckNumber
GeneratedNumber == <<"T", "N", "-", "1">>

\* what the user types into a field
FieldValues(name) ==
  IF name = "available_date"
  THEN {<<"2", "0", "2", "6", "-", "0", "1", "-", "1", "5">>,
        <<"2", "0", "2", "6", "-", "1", "3", "-", "0", "1">>}
  ELSE IF name = "origin" THEN {<<" ">>, <<"L", "A", " ">>}
  ELSE IF name = "trailer_type" THEN {<<"V", "A", "N">>}
  ELSE {<<>>}
FieldNames == {"truck_number", "available_date", "origin", "trailer_type"}

\* what Truck.create answers: the record, an error list without data, or a
\* rejection
CreateReplies ==
  {Resolved("row", <<>>), Resolved("none", <<MsgX>>), Rejected(MsgOther)}

\* TruckBoard.tsx:247, 61-65  the Add button, and the effect that fills in a
\* generated truck number when the modal opens
OpenAdd ==
  /\ ~isAddOpen
  /\ isAddOpen' = TRUE
  /\ form' = [form EXCEPT !.truck_number = GeneratedNumber]
  /\ UNCHANGED <<adding, createError, payload, lastCreated, refreshToken,
                 createReply>>
  /\ UNCHANGED <<monitorVars, validVars, dataVars, roleVars, userVars, restVars>>

\* TruckBoard.tsx:67-83  onChange of a field of the open modal
OnChange(name, value) ==
  /\ isAddOpen
  /\ form' = [form EXCEPT ![name] = value]
  /\ UNCHANGED <<isAddOpen, adding, createError, payload, lastCreated,
                 refreshToken, createReply>>
  /\ UNCHANGED <<monitorVars, validVars, dataVars, roleVars, userVars, restVars>>

\* TruckBoard.tsx:85-89  closeModal
CloseModal ==
  /\ isAddOpen
  /\ ~adding
  /\ createError' = NoError
  /\ isAddOpen' = FALSE
  /\ UNCHANGED <<adding, form, payload, lastCreated, refreshToken,
                 createReply>>
  /\ UNCHANGED <<monitorVars, validVars, dataVars, roleVars, userVars, restVars>>

\* TruckBoard.tsx:178-207  handleCreate up to the await of Truck.create
\* (the submit button is disabled while adding, TruckBoard.tsx:382)
HandleCreate(allowed) ==
  /\ isAddOpen
  /\ ~adding
  /\ refreshToken < MaxCreates
  /\ IF ~ValidateOk(form, allowed)
     THEN /\ createError' = ErrorMsg(MsgValidation)
          /\ UNCHANGED <<adding, payload>>
     ELSE IF \E n \in {"truck_number", "available_date", "origin",
                        "trailer_type"} : Len(Payload(form)[n]) = 0
     THEN /\ createError' = ErrorMsg(MsgPleaseFill)
          /\ UNCHANGED <<adding, payload>>
     ELSE /\ createError' = NoError
          /\ adding' = TRUE
          /\ payload' = Payload(form)
  /\ UNCHANGED <<isAddOpen, form, lastCreated, refreshToken, createReply>>
  /\ UNCHANGED <<monitorVars, validVars, dataVars, roleVars, userVars, restVars>>

\* TruckBoard.tsx:208-231  handleCreate after the await: the errors of the
\* response are not read
CreateReturns(r) ==
  /\ adding
  /\ createReply' = r
  /\ adding' = FALSE
  /\ IF r.kind = "reject"
     THEN /\ createError' = ErrorMsg(r.msg)
          /\ UNCHANGED <<form, isAddOpen, lastCreated, refreshToken>>
     ELSE /\ form' = EmptyForm
          /\ isAddOpen' = FALSE
          /\ lastCreated' = IF r.data # "none"
                            THEN [from |-> "data", truck |-> payload]
                            ELSE [from |-> "payload", truck |-> payload]
          /\ refreshToken' = refreshToken + 1
          /\ UNCHANGED createError
  /\ UNCHANGED payload
  /\ UNCHANGED <<monitorVars, validVars, dataVars, roleVars, userVars, restVars>>

InitTruck ==
  /\ InitHook
  /\ requireAuth = FALSE
  /\ probe = NoProbe
  /\ lastValid = NoEvaluation
  /\ InitNoData
  /\ InitNoTruck
  /\ InitNoRole
  /\ InitNoUser
  /\ InitNoRest

NextTruck ==
  \/ OpenAdd
  \/ \E n \in FieldNames : \E v \in FieldValues(n) : OnChange(n, v)
  \/ CloseModal
  \/ \E allowed \in BOOLEAN : HandleCreate(allowed)
  \/ \E r \in CreateReplies : CreateReturns(r)

SpecTruck == InitTruck /\ [][NextTruck]_vars

\* --------------------------------------------------- role normalizers
ToUpperChar(c) ==
  IF \E i \in 1..Len(LowerCase) : LowerCase[i] = c
  THEN UpperCase[CHOOSE i \in 1..Len(LowerCase) : LowerCase[i] = c]
  ELSE c

\* String.prototype.toUpperCase
ToUpper(s) == [i \in 1..Len(s) |-> ToUpperChar(s[i])]

\* String(r ?? ''): null and undefined give '', a number its digits
StringOf(r) == IF r.kind \in {"null", "undefined"} THEN <<>> ELSE r.s

\* r === 'literal': a string with exactly these characters
IsLiteral(r, lit) == r.kind = "string" /\ r.s = lit

SUPER_MANAGER == <<"S", "U", "P", "E", "R", "_", "M", "A", "N", "A", "G", "E", "R">>
MANAGER == <<"M", "A", "N", "A", "G", "E", "R">>
MEMBER == <<"M", "E", "M", "B", "E", "R">>
SuperManagerLabel == <<"S", "u", "p", "e", "r", " ", "M", "a", "n", "a", "g", "e", "r">>
ManagerLabel == <<"M", "a", "n", "a", "g", "e", "r">>
MemberLabel == <<"M", "e", "m", "b", "e", "r">>
AdminLiteral == <<"A", "d", "m", "i", "n">>
RegularLiteral == <<"R", "e", "g", "u", "l", "a", "r">>
EmptyString == <<>>

\* A normalizer that hands an unmatched string back.
displayRoleEcho(r) ==
  LET v == ToUpper(StringOf(r))
  IN IF v = SUPER_MANAGER THEN SuperManagerLabel
     ELSE IF v = MANAGER THEN ManagerLabel
     ELSE IF v = MEMBER THEN MemberLabel
     ELSE IF IsLiteral(r, AdminLiteral) THEN SuperManagerLabel
     ELSE IF IsLiteral(r, RegularLiteral) THEN MemberLabel
     ELSE StringOf(r)

\* A normalizer that matches the legacy literals in any letter case.
displayRoleLegacyAnyCase(r) ==
  LET v == ToUpper(StringOf(r))
  IN IF v = SUPER_MANAGER THEN SuperManagerLabel
     ELSE IF v = MANAGER THEN ManagerLabel
     ELSE IF v = MEMBER THEN MemberLabel
     ELSE IF v = ToUpper(AdminLiteral) THEN SuperManagerLabel
     ELSE IF v = ToUpper(RegularLiteral) THEN MemberLabel
     ELSE IF v = ToUpper(SuperManagerLabel) THEN SuperManagerLabel
     ELSE EmptyString

\* AuthContext.tsx:23-32
displayRole(r) ==
  LET v == ToUpper(StringOf(r))
  IN IF v = SUPER_MANAGER THEN SuperManagerLabel
     ELSE IF v = MANAGER THEN ManagerLabel
     ELSE IF v = MEMBER THEN MemberLabel
     ELSE IF IsLiteral(r, AdminLiteral) THEN SuperManagerLabel
     ELSE IF IsLiteral(r, RegularLiteral) THEN MemberLabel
     ELSE IF \/ IsLiteral(r, SuperManagerLabel)
             \/ IsLiteral(r, ManagerLabel)
             \/ IsLiteral(r, MemberLabel) THEN StringOf(r)
     ELSE EmptyString

\* useUserData.ts:7-16
displayRoleHook(r) ==
  LET v == ToUpper(StringOf(r))
  IN IF v = SUPER_MANAGER THEN SuperManagerLabel
     ELSE IF v = MANAGER THEN ManagerLabel
     ELSE IF v = MEMBER THEN MemberLabel
     ELSE IF IsLiteral(r, AdminLiteral) THEN SuperManagerLabel
     ELSE IF IsLiteral(r, RegularLiteral) THEN MemberLabel
     ELSE IF \/ IsLiteral(r, SuperManagerLabel)
             \/ IsLiteral(r, ManagerLabel)
             \/ IsLiteral(r, MemberLabel) THEN StringOf(r)
     ELSE EmptyString

\* ManageTeams.tsx:656-665  (Sidebar)
displayRoleSidebar(r) ==
  LET v == ToUpper(StringOf(r))
  IN IF v = SUPER_MANAGER THEN SuperManagerLabel
     ELSE IF v = MANAGER THEN ManagerLabel
     ELSE IF v = MEMBER THEN MemberLabel
     ELSE IF IsLiteral(r, AdminLiteral) THEN SuperManagerLabel
     ELSE IF IsLiteral(r, RegularLiteral) THEN MemberLabel
     ELSE IF \/ IsLiteral(r, SuperManagerLabel)
             \/ IsLiteral(r, ManagerLabel)
             \/ IsLiteral(r, MemberLabel) THEN StringOf(r)
     ELSE EmptyString

\* ManageUsers.tsx:253-261
displayRoleUsers(r) ==
  LET v == ToUpper(StringOf(r))
  IN IF v = SUPER_MANAGER THEN SuperManagerLabel
     ELSE IF v = MANAGER THEN ManagerLabel
     ELSE IF v = MEMBER THEN MemberLabel
     ELSE IF \/ IsLiteral(r, SuperManagerLabel)
             \/ IsLiteral(r, ManagerLabel)
             \/ IsLiteral(r, MemberLabel) THEN StringOf(r)
     ELSE MemberLabel

\* ManageUsers.tsx:474-484  a canonical code, or <<>> for null
normalizeRoleValue(r) ==
  LET v == ToUpper(StringOf(r))
  IN IF v = SUPER_MANAGER THEN SUPER_MANAGER
     ELSE IF v = MANAGER THEN MANAGER
     ELSE IF v = MEMBER THEN MEMBER
     ELSE IF IsLiteral(r, SuperManagerLabel) \/ IsLiteral(r, AdminLiteral)
     THEN SUPER_MANAGER
     ELSE IF IsLiteral(r, ManagerLabel) THEN MANAGER
     ELSE IF IsLiteral(r, MemberLabel) \/ IsLiteral(r, RegularLiteral)
     THEN MEMBER
     ELSE <<>>

\* amplify/data/resource.ts:8  the Role enum
RoleEnum ==
  {SUPER_MANAGER, MANAGER, MEMBER, ManagerLabel, MemberLabel, AdminLiteral,
   RegularLiteral}

\* the stored value in other letter cases, padded, or cut short
Variants(s) ==
  {s, ToLower(s), ToUpper(s), s \o <<" ">>, <<" ">> \o s,
   SubSeq(s, 1, Len(s) - 1)}

OtherStrings ==
  {SuperManagerLabel, EmptyString, <<"O", "w", "n", "e", "r">>,
   <<"A", "d", "m", "i", "n", "s">>, <<"M", "a", "n", "a", "g", "e", "r", "s">>,
   <<"S", "U", "P", "E", "R", " ", "M", "A", "N", "A", "G", "E", "R">>}

RoleInputs ==
  {Value("string", v) : v \in UNION {Variants(s) : s \in RoleEnum \cup OtherStrings}}
    \cup {NullValue, Value("undefined", <<>>), Value("number", <<"7">>)}

InitRole ==
  /\ InitHook
  /\ requireAuth = FALSE
  /\ probe = NoProbe
  /\ lastValid = NoEvaluation
  /\ InitNoData
  /\ InitNoTruck
  /\ InitNoUser
  /\ InitNoRest
  /\ roleIn \in RoleInputs
  /\ roleOut = NoRoleOut

\* every copy of the normalizer applied to the stored value
Normalize ==
  /\ ~roleOut.done
  /\ roleOut' = [done |-> TRUE,
                 auth |-> displayRole(roleIn),
                 hook |-> displayRoleHook(roleIn),
                 sidebar |-> displayRoleSidebar(roleIn),
                 users |-> displayRoleUsers(roleIn),
                 code |-> normalizeRoleValue(roleIn)]
  /\ UNCHANGED roleIn
  /\ UNCHANGED <<monitorVars, validVars, dataVars, truckVars, userVars, restVars>>

NextRole == Normalize

SpecRole == InitRole /\ [][NextRole]_vars

\* ---------------------------------------------------- user-data fetch
Consumers == {"provider", "hook", "sidebar"}
\* the first execution is any consumer's, the later ones are the provider's
\* (the mount-time fetch and refetch calls)
ConsumersOf(e) == IF e = 1 THEN Consumers ELSE {"provider"}

FirmF1 == <<"F", "1">>
FirmF2 == <<"F", "2">>
\* an id no firm has
FirmF9 == <<"F", "9">>
BobEmail == <<"B", "o", "b", "@", "x", ".", "i", "o">>

\* amplify/data/resource.ts:12-41  the Firm rows of the backend
FirmTable ==
  {[id |-> FirmF1, administrator_email |-> ToLower(BobEmail),
    firm_name |-> <<"A", "c", "m", "e", " ">>],
   [id |-> FirmF2, administrator_email |-> <<"a", "m", "y", "@", "x", ".", "i", "o">>,
    firm_name |-> <<"Z", "e", "n">>]}

\* amplify/data/resource.ts:43-60  the User rows of the backend
NoUser == [email |-> <<>>, role |-> NullValue]
UserTable ==
  {[email |-> ToLower(BobEmail), role |-> Value("string", AdminLiteral)]}

\* fetchUserAttributes: given_name, family_name
GivenName == <<" ", "B", "o", "b">>
FamilyName == <<>>

\* AuthContext.tsx:60-61  emailRaw and email
EmailRaw == Trim(identity)
Email == ToLower(EmailRaw)

\* AuthContext.tsx:140  [first, last].filter(Boolean).join(' ')
FullName ==
  LET first == Trim(GivenName)
      last == Trim(FamilyName)
  IN IF Len(first) = 0 THEN last
     ELSE IF Len(last) = 0 THEN first
     ELSE first \o <<" ">> \o last

Lookup(q, mode, value) == [q |-> q, mode |-> mode, value |-> value]

\* A filter that selects the firms with another id.
MatchesOtherId(f, id) == f.id # id

\* filter: { id: { eq: persistedId } }   (AuthContext.tsx:96, 105)
MatchesId(f, id) == f.id = id

\* the rows a list call selects (limit: 1)
Rows(lk) ==
  IF lk.q = "user"
  THEN IF \E u \in UserTable : u.email = lk.value
       THEN <<CHOOSE u \in UserTable : u.email = lk.value>>
       ELSE <<>>
  ELSE IF lk.q = "firmById"
  THEN IF \E f \in FirmTable : MatchesId(f, lk.value)
       THEN <<CHOOSE f \in FirmTable : MatchesId(f, lk.value)>>
       ELSE <<>>
  ELSE IF \E f \in FirmTable : f.administrator_email = lk.value
       THEN <<CHOOSE f \in FirmTable : f.administrator_email = lk.value>>
       ELSE <<>>

\* what the backend answers: an error list under a refused mode
Answer(lk) ==
  IF lk.mode \in deny THEN Resolved(<<>>, <<MsgNotAuthorized>>)
  ELSE Resolved(Rows(lk), <<>>)

\* AuthContext.tsx:37-47  tryList: res.data, or undefined (no rows)
tryList(reply) ==
  IF reply.kind = "reject" THEN <<>>
  ELSE IF Len(reply.errors) > 0 THEN <<>>
  ELSE reply.data

\* AuthContext.tsx:73  Array.isArray(x) ? x[0] : x?.[0]
FirstRow(list, none) == IF Len(list) = 0 THEN none ELSE list[1]

\* the row the lookup the execution is suspended at returns
Returned(e, none) == FirstRow(tryList(Answer(xlog[e][Len(xlog[e])])), none)

\* firmData.name || '' : a field the row does not have reads as undefined
ReadField(row, field) == IF field \in DOMAIN row THEN row[field] ELSE <<>>

\* AuthContext.tsx:92  try { persistedId = localStorage.getItem(...) } catch {}
GetItem == IF storageMode = "allThrow" THEN NoId ELSE storage

\* A setItem whose exception is not caught.
SetItemUncaught(mode) == IF mode = "ok" THEN "stored" ELSE "raised"

\* AuthContext.tsx:134-136  try { localStorage.setItem(...) } catch {}
SetItem(mode) == IF mode = "ok" THEN "stored" ELSE "swallowed"

\* An e-mail lookup made whatever the lookup by id returned.
NeedEmailLookupAlways(f, em) == Len(em) > 0

\* AuthContext.tsx:113  if (!firmData && email)
NeedEmailLookup(f, em) == f = NoFirm /\ Len(em) > 0

\* the filter value of the identityPool lookup by administrator_email:
\* email in AuthContext.tsx:124, emailRaw in useUserData.ts:102 and
\* ManageTeams.tsx:736
SecondaryEmail(k) == IF k = "provider" THEN Email ELSE EmailRaw

\* the normalizer each consumer applies to userRow.role
RoleLabel(k, r) ==
  IF k = "provider" THEN displayRole(r)
  ELSE IF k = "hook" THEN displayRoleHook(r)
  ELSE displayRoleSidebar(r)

\* AuthContext.tsx:133 firmData.name || '';  useUserData.ts:110 and
\* ManageTeams.tsx:742 String(firmData?.firm_name || '').trim()
Company(k, f) ==
  IF k = "provider" THEN ReadField(f, "name")
  ELSE Trim(ReadField(f, "firm_name"))

OutOf(e, f) ==
  [status |-> "ok", name |-> FullName, email |-> EmailRaw,
   role |-> xrole[e], company |-> Company(xkind[e], f)]

\* the execution issues a lookup and waits for it
Suspend(e, stage, lk) ==
  /\ xpc' = [xpc EXCEPT ![e] = stage]
  /\ xlog' = [xlog EXCEPT ![e] = Append(@, lk)]
  /\ UNCHANGED <<xfirm, xout, storage, written, userData, isLoading,
                 userError>>

\* AuthContext.tsx:132-152, useUserData.ts:110-117, ManageTeams.tsx:742-743
\* the end of the execution, with firmData = f
Finish(e, f) ==
  LET put == IF xkind[e] = "provider" /\ f # NoFirm
             THEN SetItem(storageMode) ELSE "skipped"
  IN /\ xpc' = [xpc EXCEPT ![e] = "done"]
     /\ xfirm' = [xfirm EXCEPT ![e] = f]
     /\ storage' = IF put = "stored" THEN f.id ELSE storage
     /\ written' = IF put = "stored" THEN written \cup {f.id} ELSE written
     /\ xout' = [xout EXCEPT ![e] =
                   IF put = "raised" THEN [NoUserData EXCEPT !.status = "failed"]
                   ELSE OutOf(e, f)]
     /\ IF xkind[e] = "provider"
        THEN /\ userData' = IF put = "raised" THEN userData ELSE OutOf(e, f)
             /\ userError' = (put = "raised")
             /\ isLoading' = FALSE
        ELSE UNCHANGED <<userData, userError, isLoading>>
     /\ UNCHANGED xlog

\* AuthContext.tsx:112-130  after the lookups by persisted id
AfterId(e, f) ==
  IF NeedEmailLookup(f, Email)
  THEN Suspend(e, "firmEmailUL", Lookup("firmByEmail", "userPool", Email))
  ELSE Finish(e, f)

\* AuthContext.tsx:83-94  after the user lookups: the role, then the read of
\* the persisted id
AfterUser(e, row) ==
  /\ xrole' = [xrole EXCEPT ![e] =
                 IF row.role.kind = "string" /\ Len(row.role.s) > 0
                 THEN RoleLabel(xkind[e], row.role) ELSE <<>>]
  /\ xread' = [xread EXCEPT ![e] = GetItem]
  /\ IF GetItem # NoId
     THEN Suspend(e, "firmIdUL", Lookup("firmById", "userPool", GetItem))
     ELSE AfterId(e, NoFirm)

offUser == <<monitorVars, validVars, dataVars, truckVars, roleVars, restVars>>
envVars == <<storageMode, deny, identity>>

\* AuthContext.tsx:54-57, 155-161  fetchUserData is called (on mount, by
\* refetch); useUserData.ts:35-36; ManageTeams.tsx:680-683
StartFetch(e, k) ==
  /\ xpc[e] = "idle"
  /\ IF e = 1 THEN TRUE ELSE xpc[e - 1] # "idle"
  /\ xkind' = [xkind EXCEPT ![e] = k]
  /\ xpc' = [xpc EXCEPT ![e] = "attrs"]
  /\ isLoading' = IF k = "provider" THEN TRUE ELSE isLoading
  /\ UNCHANGED <<xread, xfirm, xrole, xlog, xout, userData, userError,
                 storage, written>>
  /\ UNCHANGED <<envVars, offUser>>

\* AuthContext.tsx:57-71  fetchUserAttributes resolved: the userPool lookup
\* of the user row is issued (the Sidebar stays mounted)
AttrsResolve(e) ==
  /\ xpc[e] = "attrs"
  /\ Suspend(e, "userUL", Lookup("user", "userPool", Email))
  /\ UNCHANGED <<xkind, xread, xrole>>
  /\ UNCHANGED <<envVars, offUser>>

\* AuthContext.tsx:146-152  fetchUserAttributes rejected: the outer catch
\* (useUserData: the query fails; Sidebar: ignored)
AttrsReject(e) ==
  /\ xpc[e] = "attrs"
  /\ xpc' = [xpc EXCEPT ![e] = "done"]
  /\ xout' = [xout EXCEPT ![e] = [NoUserData EXCEPT !.status = "failed"]]
  /\ IF xkind[e] = "provider"
     THEN userError' = TRUE /\ isLoading' = FALSE
     ELSE UNCHANGED <<userError, isLoading>>
  /\ UNCHANGED <<xkind, xread, xfirm, xrole, xlog, userData, storage, written>>
  /\ UNCHANGED <<envVars, offUser>>

\* AuthContext.tsx:73-81  the userPool lookup of the user row returned
UserULReturns(e) ==
  /\ xpc[e] = "userUL"
  /\ IF Returned(e, NoUser) = NoUser
     THEN /\ Suspend(e, "userIL", Lookup("user", "identityPool", Email))
          /\ UNCHANGED <<xread, xrole>>
     ELSE AfterUser(e, Returned(e, NoUser))
  /\ UNCHANGED xkind
  /\ UNCHANGED <<envVars, offUser>>

\* AuthContext.tsx:80-94  the identityPool lookup of the user row returned
UserILReturns(e) ==
  /\ xpc[e] = "userIL"
  /\ AfterUser(e, Returned(e, NoUser))
  /\ UNCHANGED xkind
  /\ UNCHANGED <<envVars, offUser>>

\* AuthContext.tsx:101-110  the userPool lookup by persisted id returned
FirmIdULReturns(e) ==
  /\ xpc[e] = "firmIdUL"
  /\ IF Returned(e, NoFirm) = NoFirm
     THEN Suspend(e, "firmIdIL", Lookup("firmById", "identityPool", xread[e]))
     ELSE AfterId(e, Returned(e, NoFirm))
  /\ UNCHANGED <<xkind, xread, xrole>>
  /\ UNCHANGED <<envVars, offUser>>

\* AuthContext.tsx:109-113  the identityPool lookup by persisted id returned
FirmIdILReturns(e) ==
  /\ xpc[e] = "firmIdIL"
  /\ AfterId(e, Returned(e, NoFirm))
  /\ UNCHANGED <<xkind, xread, xrole>>
  /\ UNCHANGED <<envVars, offUser>>

\* AuthContext.tsx:120-129  the userPool lookup by administrator_email returned
FirmEmailULReturns(e) ==
  /\ xpc[e] = "firmEmailUL"
  /\ IF Returned(e, NoFirm) = NoFirm
     THEN Suspend(e, "firmEmailIL",
                  Lookup("firmByEmail", "identityPool", SecondaryEmail(xkind[e])))
     ELSE Finish(e, Returned(e, NoFirm))
  /\ UNCHANGED <<xkind, xread, xrole>>
  /\ UNCHANGED <<envVars, offUser>>

\* AuthContext.tsx:128-152  the identityPool lookup by administrator_email
\* returned
FirmEmailILReturns(e) ==
  /\ xpc[e] = "firmEmailIL"
  /\ Finish(e, Returned(e, NoFirm))
  /\ UNCHANGED <<xkind, xread, xrole>>
  /\ UNCHANGED <<envVars, offUser>>

\* what localStorage holds at the start: nothing, the user's firm, another
\* tenant's firm, an id no firm has. ManageTeams.tsx:750-763 (handleSignOut)
\* signs out and navigates without touching 'c2b:myFirmId', and no code
\* removes the key, so the id an earlier user stored is what the next user's
\* first fetch reads.
StoredAtStart == {NoId, FirmF1, FirmF2, FirmF9}

InitUser ==
  /\ InitHook
  /\ requireAuth = FALSE
  /\ probe = NoProbe
  /\ lastValid = NoEvaluation
  /\ InitNoData
  /\ InitNoTruck
  /\ InitNoRole
  /\ InitNoRest
  /\ storage \in StoredAtStart
  /\ storageMode \in {"ok", "allThrow", "writeThrow"}
  /\ deny \in {{}, {"userPool"}}
  /\ identity \in {BobEmail \o <<" ">>, <<>>}
  /\ InitExecs

NextUser ==
  \/ \E e \in Execs : \E k \in ConsumersOf(e) : StartFetch(e, k)
  \/ \E e \in Execs : AttrsResolve(e)
  \/ \E e \in Execs : AttrsReject(e)
  \/ \E e \in Execs : UserULReturns(e)
  \/ \E e \in Execs : UserILReturns(e)
  \/ \E e \in Execs : FirmIdULReturns(e)
  \/ \E e \in Execs : FirmIdILReturns(e)
  \/ \E e \in Execs : FirmEmailULReturns(e)
  \/ \E e \in Execs : FirmEmailILReturns(e)

SpecUser == InitUser /\ [][NextUser]_vars

\* ------------------------------------------- sendResetEmail function
\* how the handler is invoked: through the Data resolver (event.arguments),
\* with an API-Gateway style body that parses or does not parse as JSON,
\* with the payload as the event itself, or with no event at all
EventKinds == {"arguments", "body", "badBody", "direct", "null"}
Recipient == <<"a", "@", "x", ".", "i", "o">>
ResetUrl == <<"h", "t", "t", "p", "s", ":", "/", "/", "x">>
MailEvents ==
  {[kind |-> k, to |-> to, resetUrl |-> u] :
     k \in EventKinds, to \in {<<>>, <<" ">>, Recipient \o <<" ">>},
     u \in {<<>>, <<" ">>, ResetUrl}}
\* process.env.FROM_EMAIL: unset (or empty), or an address
Senders == {<<>>, <<"n", "o", "-", "r", "e", "p", "l", "y", "@", "x">>}

\* handler.ts:16-18  the payload: "throw" when JSON.parse raises
PayloadOf(ev) == IF ev.kind = "badBody" THEN "throw" ELSE "ok"

\* handler.ts:20-21  String(payload?.to || '').trim(); a null event has no
\* field
ArgOf(ev, field) == IF ev.kind = "null" THEN <<>> ELSE Trim(ev[field])

\* handler.ts:12-62  the handler up to the await of ses.send
Invoke ==
  /\ mpc = "idle"
  /\ IF PayloadOf(mailEvent) = "throw"
     THEN mpc' = "done" /\ mailResult' = "false"
     ELSE IF Len(ArgOf(mailEvent, "to")) = 0
             \/ Len(ArgOf(mailEvent, "resetUrl")) = 0
     THEN mpc' = "done" /\ mailResult' = "false"
     ELSE IF Len(fromEmail) = 0
     THEN mpc' = "done" /\ mailResult' = "object"
     ELSE mpc' = "sending" /\ UNCHANGED mailResult
  /\ UNCHANGED <<mailEvent, fromEmail, sendOutcome>>
  /\ UNCHANGED <<monitorVars, validVars, dataVars, truckVars, roleVars,
                 userVars, tableVars>>

\* handler.ts:62-64  ses.send resolved
SendResolves ==
  /\ mpc = "sending"
  /\ mpc' = "done"
  /\ sendOutcome' = "ok"
  /\ mailResult' = "true"
  /\ UNCHANGED <<mailEvent, fromEmail>>
  /\ UNCHANGED <<monitorVars, validVars, dataVars, truckVars, roleVars,
                 userVars, tableVars>>

\* handler.ts:65-68  ses.send rejected: the catch
SendRejects ==
  /\ mpc = "sending"
  /\ mpc' = "done"
  /\ sendOutcome' = "failed"
  /\ mailResult' = "false"
  /\ UNCHANGED <<mailEvent, fromEmail>>
  /\ UNCHANGED <<monitorVars, validVars, dataVars, truckVars, roleVars,
                 userVars, tableVars>>

InitMail ==
  /\ InitHook
  /\ requireAuth = FALSE
  /\ probe = NoProbe
  /\ lastValid = NoEvaluation
  /\ InitNoData
  /\ InitNoTruck
  /\ InitNoRole
  /\ InitNoUser
  /\ InitNoTable
  /\ mailEvent \in MailEvents
  /\ fromEmail \in Senders
  /\ mpc = "idle"
  /\ mailResult = "none"
  /\ sendOutcome = "none"

NextMail ==
  \/ Invoke
  \/ SendResolves
  \/ SendRejects

SpecMail == InitMail /\ [][NextMail]_vars

\* ------------------------------------------------- the ManageUsers table
\* u2 has a blank e-mail
EmailOf(id) == IF id = "u2" THEN <<" ">> ELSE <<"a", "@", "x">>
RowOf(id) == [id |-> id, email |-> EmailOf(id), role |-> MEMBER]
\* ManageUsers.tsx:543-547  the options of the bulk role select used here
BulkChoices == {MANAGER, MEMBER}
\* ManageUsers.tsx:629  the options of the rows-per-page select offered here
RowsChoices == {FEWEST_ROWS, DEFAULT_ROWS}

\* the replies to deleteCognitoUser and to User.update / User.delete
CognitoReplies ==
  {Resolved("true", <<>>), Resolved("null", <<>>),
   Resolved("none", <<MsgNotAuthorized>>), Rejected(MsgOther)}
RowReplies ==
  {Resolved("row", <<>>), Rejected(MsgNotAuthorizedLower),
   Resolved("none", <<MsgX>>)}

IdsOf(list) == {list[i].id : i \in 1..Len(list)}

\* Array.prototype.filter / map over the list
RECURSIVE Without(_, _)
Without(list, id) ==
  IF list = <<>> THEN <<>>
  ELSE IF list[1].id = id THEN Without(Tail(list), id)
  ELSE <<list[1]>> \o Without(Tail(list), id)

WithRole(list, ids, r) ==
  [i \in 1..Len(list) |->
     IF list[i].id \in ids THEN [list[i] EXCEPT !.role = r] ELSE list[i]]

\* Array.from(selectedIds): the model iterates in the order of UserIds, the
\* added row last; the outcomes per user do not depend on the order.
RECURSIVE InOrder(_, _)
InOrder(order, ids) ==
  IF order = <<>> THEN <<>>
  ELSE IF order[1] \in ids THEN <<order[1]>> \o InOrder(Tail(order), ids)
  ELSE InOrder(Tail(order), ids)

\* ManageUsers.tsx:442-447
Total == Len(users)
Start == page * rowsPerPage
End == IF Start + rowsPerPage < Total THEN Start + rowsPerPage ELSE Total
PageItems == {users[i] : i \in (Start + 1)..End}
PageIds == {u.id : u \in PageItems}

\* ManageUsers.tsx:449
nextPage ==
  /\ page' = (IF End >= Total THEN page ELSE page + 1)
  /\ UNCHANGED <<users, selectedIds, bulkRole, bulkSaving, deletingId,
                 rowsPerPage, del, bulkSel, bulkRoleAt, bulkTodo, bulkStage,
                 bulkDone, cognitoGone, dataTried, rowGone, ops>>
  /\ UNCHANGED offTable

\* ManageUsers.tsx:450
prevPage ==
  /\ page' = (IF page <= 0 THEN 0 ELSE page - 1)
  /\ UNCHANGED <<users, selectedIds, bulkRole, bulkSaving, deletingId,
                 rowsPerPage, del, bulkSel, bulkRoleAt, bulkTodo, bulkStage,
                 bulkDone, cognitoGone, dataTried, rowGone, ops>>
  /\ UNCHANGED offTable

\* ManageUsers.tsx:628  setRowsPerPage(Number(e.target.value)); setPage(0)
SetRowsPerPage(n) ==
  /\ rowsPerPage' = n
  /\ page' = 0
  /\ UNCHANGED <<users, selectedIds, bulkRole, bulkSaving, deletingId, del,
                 bulkSel, bulkRoleAt, bulkTodo, bulkStage, bulkDone,
                 cognitoGone, dataTried, rowGone, ops>>
  /\ UNCHANGED offTable

\* ManageUsers.tsx:453-460, 581  the checkbox of a row of the current page
toggleSelect(id) ==
  /\ id \in PageIds
  /\ selectedIds' = (IF id \in selectedIds THEN selectedIds \ {id}
                     ELSE selectedIds \cup {id})
  /\ UNCHANGED <<users, bulkRole, bulkSaving, deletingId, page, rowsPerPage,
                 del, bulkSel, bulkRoleAt, bulkTodo, bulkStage, bulkDone,
                 cognitoGone, dataTried, rowGone, ops>>
  /\ UNCHANGED offTable

\* ManageUsers.tsx:542  the bulk role select
SetBulkRole(r) ==
  /\ bulkRole' = r
  /\ UNCHANGED <<users, selectedIds, bulkSaving, deletingId, page,
                 rowsPerPage, del, bulkSel, bulkRoleAt, bulkTodo, bulkStage,
                 bulkDone, cognitoGone, dataTried, rowGone, ops>>
  /\ UNCHANGED offTable

\* ManageUsers.tsx:374  onAddUser, after the account and the row were
\* created: the new row is put first. A failed addition leaves the table
\* as it is.
AddUserReturns(ok) ==
  /\ ops < MaxOps
  /\ NewId \notin IdsOf(users)
  /\ NewId \notin rowGone
  /\ users' = (IF ok THEN <<RowOf(NewId)>> \o users ELSE users)
  /\ ops' = ops + 1
  /\ UNCHANGED <<selectedIds, bulkRole, bulkSaving, deletingId, page,
                 rowsPerPage, del, bulkSel, bulkRoleAt, bulkTodo, bulkStage,
                 bulkDone, cognitoGone, dataTried, rowGone>>
  /\ UNCHANGED offTable

\* ---- deleteUser
\* ManageUsers.tsx:129  new Error('Failed to delete Cognito user')
MsgFailedCognito == <<"F", "a", "i", "l", "e", "d", " ", "t", "o", " ", "d", "e", "l", "e", "t", "e", " ", "C", "o", "g", "n", "i", "t", "o", " ", "u", "s", "e", "r">>

\* ManageUsers.tsx:127-131  the message the catch of the Cognito step sees
DeleteFailure(r) ==
  IF r.kind = "reject" \/ Len(r.errors) > 0 THEN Failure(r)
  ELSE MsgFailedCognito

\* the test of ManageUsers.tsx:128-129 with the data left out
CognitoOkLoose(r) == Succeeded(r)

\* ManageUsers.tsx:127-129  the reply passes when it carries no errors and
\* its data is true
CognitoOk(r) == Succeeded(r) /\ r.data = "true"

\* ManageUsers.tsx:165-169  catch and finally of deleteUser
DeleteFails(id) ==
  /\ deletingId' = Null
  /\ del' = [del EXCEPT ![id] = "idle"]
  /\ UNCHANGED <<users, selectedIds>>

\* ManageUsers.tsx:158-164, 169  both deletions passed
DeleteDone(id) ==
  /\ users' = Without(users, id)
  /\ selectedIds' = selectedIds \ {id}
  /\ deletingId' = Null
  /\ del' = [del EXCEPT ![id] = "idle"]

\* ManageUsers.tsx:104-125, 612  the Delete button of a row of the current
\* page: the rows of the model all carry an id; a blank e-mail or a declined
\* confirmation ends the handler before anything is set; a backend without
\* the mutation throws before the first await.
deleteUser(u, confirmed, provisioned) ==
  /\ u \in PageItems
  /\ deletingId # u.id
  /\ del[u.id] = "idle"
  /\ ops < MaxOps
  /\ ops' = ops + 1
  /\ IF ToLower(Trim(u.email)) = <<>> \/ ~confirmed
     THEN UNCHANGED <<deletingId, del>>
     ELSE IF ~provisioned
     THEN deletingId' = Null /\ UNCHANGED del
     ELSE /\ deletingId' = u.id
          /\ del' = [del EXCEPT ![u.id] = "cognitoUL"]
  /\ UNCHANGED <<users, selectedIds, bulkRole, bulkSaving, page, rowsPerPage,
                 bulkSel, bulkRoleAt, bulkTodo, bulkStage, bulkDone,
                 cognitoGone, dataTried, rowGone>>
  /\ UNCHANGED offTable

\* the step after the Cognito deletion passed: User.delete is called
ToRowDelete(id) ==
  /\ del' = [del EXCEPT ![id] = "dataUL"]
  /\ dataTried' = dataTried \cup {id}
  /\ UNCHANGED <<users, selectedIds, deletingId>>

\* ManageUsers.tsx:126-130, 131-141  deleteCognitoUser under userPool
\* returned. The account is gone when the function returned true
\* (deleteCognitoUser/handler.ts:24-25).
CognitoULReturns(id, r) ==
  /\ del[id] = "cognitoUL"
  /\ cognitoGone' = (IF r.kind = "resolve" /\ r.data = "true"
                     THEN cognitoGone \cup {id} ELSE cognitoGone)
  /\ IF CognitoOk(r)
     THEN ToRowDelete(id)
     ELSE IF isAuth(DeleteFailure(r))
     THEN /\ del' = [del EXCEPT ![id] = "cognitoIL"]
          /\ UNCHANGED <<users, selectedIds, deletingId, dataTried>>
     ELSE DeleteFails(id) /\ UNCHANGED dataTried
  /\ UNCHANGED <<bulkRole, bulkSaving, page, rowsPerPage, bulkSel, bulkRoleAt,
                 bulkTodo, bulkStage, bulkDone, rowGone, ops>>
  /\ UNCHANGED offTable

\* ManageUsers.tsx:133-137  deleteCognitoUser under identityPool returned
CognitoILReturns(id, r) ==
  /\ del[id] = "cognitoIL"
  /\ cognitoGone' = (IF r.kind = "resolve" /\ r.data = "true"
                     THEN cognitoGone \cup {id} ELSE cognitoGone)
  /\ IF CognitoOk(r)
     THEN ToRowDelete(id)
     ELSE DeleteFails(id) /\ UNCHANGED dataTried
  /\ UNCHANGED <<bulkRole, bulkSaving, page, rowsPerPage, bulkSel, bulkRoleAt,
                 bulkTodo, bulkStage, bulkDone, rowGone, ops>>
  /\ UNCHANGED offTable

\* ManageUsers.tsx:144-155  User.delete under userPool returned
RowULReturns(id, r) ==
  /\ del[id] = "dataUL"
  /\ rowGone' = (IF Succeeded(r) THEN rowGone \cup {id} ELSE rowGone)
  /\ IF Succeeded(r)
     THEN DeleteDone(id)
     ELSE IF isAuth(Failure(r))
     THEN /\ del' = [del EXCEPT ![id] = "dataIL"]
          /\ UNCHANGED <<users, selectedIds, deletingId>>
     ELSE DeleteFails(id)
  /\ UNCHANGED <<bulkRole, bulkSaving, page, rowsPerPage, bulkSel, bulkRoleAt,
                 bulkTodo, bulkStage, bulkDone, cognitoGone, dataTried, ops>>
  /\ UNCHANGED offTable

\* ManageUsers.tsx:149-151  User.delete under identityPool returned
RowILReturns(id, r) ==
  /\ del[id] = "dataIL"
  /\ rowGone' = (IF Succeeded(r) THEN rowGone \cup {id} ELSE rowGone)
  /\ IF Succeeded(r) THEN DeleteDone(id) ELSE DeleteFails(id)
  /\ UNCHANGED <<bulkRole, bulkSaving, page, rowsPerPage, bulkSel, bulkRoleAt,
                 bulkTodo, bulkStage, bulkDone, cognitoGone, dataTried, ops>>
  /\ UNCHANGED offTable

\* ---- applyBulkRole
\* ManageUsers.tsx:174-177, 550  the Apply button
applyBulkRole ==
  /\ ~bulkSaving
  /\ selectedIds # {}
  /\ ops < MaxOps
  /\ ops' = ops + 1
  /\ bulkSaving' = TRUE
  /\ bulkSel' = selectedIds
  /\ bulkRoleAt' = bulkRole
  /\ bulkTodo' = InOrder(UserIds \o <<NewId>>, selectedIds)
  /\ bulkStage' = "UL"
  /\ bulkDone' = {}
  /\ UNCHANGED <<users, selectedIds, bulkRole, deletingId, page, rowsPerPage,
                 del, cognitoGone, dataTried, rowGone>>
  /\ UNCHANGED offTable

\* ManageUsers.tsx:192-206  the update of the first user of bulkTodo ended;
\* after the last one the list and the selection are set
BulkNext(ok) ==
  LET id == Head(bulkTodo)
      done == IF ok THEN bulkDone \cup {id} ELSE bulkDone
      rest == Tail(bulkTodo)
  IN /\ bulkDone' = done
     /\ bulkTodo' = rest
     /\ bulkStage' = "UL"
     /\ IF rest # <<>>
        THEN UNCHANGED <<users, selectedIds, bulkSaving, bulkSel, bulkRoleAt>>
        ELSE /\ bulkSaving' = FALSE
             /\ bulkSel' = {}
             /\ bulkRoleAt' = DEFAULT_ROLE
             /\ IF Cardinality(done) > 0
                THEN /\ users' = WithRole(users, bulkSel, bulkRoleAt)
                     /\ selectedIds' = {}
                ELSE UNCHANGED <<users, selectedIds>>

\* ManageUsers.tsx:181-191  User.update under userPool returned
BulkULReturns(r) ==
  /\ bulkSaving /\ bulkStage = "UL"
  /\ IF Succeeded(r) THEN BulkNext(TRUE)
     ELSE IF isAuth(Failure(r))
     THEN /\ bulkStage' = "IL"
          /\ UNCHANGED <<users, selectedIds, bulkSaving, bulkTodo, bulkDone,
                         bulkSel, bulkRoleAt>>
     ELSE BulkNext(FALSE)
  /\ UNCHANGED <<bulkRole, deletingId, page, rowsPerPage, del, cognitoGone,
                 dataTried, rowGone, ops>>
  /\ UNCHANGED offTable

\* ManageUsers.tsx:186-187  User.update under identityPool returned
BulkILReturns(r) ==
  /\ bulkSaving /\ bulkStage = "IL"
  /\ BulkNext(Succeeded(r))
  /\ UNCHANGED <<bulkRole, deletingId, page, rowsPerPage, del, cognitoGone,
                 dataTried, rowGone, ops>>
  /\ UNCHANGED offTable

InitTable ==
  /\ InitHook
  /\ requireAuth = FALSE
  /\ probe = NoProbe
  /\ lastValid = NoEvaluation
  /\ InitNoData
  /\ InitNoTruck
  /\ InitNoRole
  /\ InitNoUser
  /\ InitNoMail
  /\ users = [i \in 1..Len(UserIds) |-> RowOf(UserIds[i])]
  /\ InitTableState

NextTable ==
  \/ nextPage
  \/ prevPage
  \/ \E n \in RowsChoices : SetRowsPerPage(n)
  \/ \E id \in CheckboxRows : toggleSelect(id)
  \/ \E r \in BulkChoices : SetBulkRole(r)
  \/ \E ok \in BOOLEAN : AddUserReturns(ok)
  \/ \E u \in PageItems : \E c \in BOOLEAN : \E p \in BOOLEAN :
       u.id \in DeleteRows /\ deleteUser(u, c, p)
  \/ \E id \in DeleteRows : \E r \in CognitoReplies : CognitoULReturns(id, r)
  \/ \E id \in DeleteRows : \E r \in CognitoReplies : CognitoILReturns(id, r)
  \/ \E id \in DeleteRows : \E r \in RowReplies : RowULReturns(id, r)
  \/ \E id \in DeleteRows : \E r \in RowReplies : RowILReturns(id, r)
  \/ applyBulkRole
  \/ \E r \in RowReplies : BulkULReturns(r)
  \/ \E r \in RowReplies : BulkILReturns(r)

SpecTable == InitTable /\ [][NextTable]_vars

\* ------------------------------------------------------------- claims
InFlight == {g \in Gens : pc[g] \in {"fetching", "signingOut"}}

FailClosedShapes == {"null", "noTokens", "noAccessToken", "noPayload", "noExp"}

\* C1: for a session with expiry e and current time t (seconds),
\* isSessionValid returns true if and only if e - t > 300.
C1_ValidIffBeyondBuffer ==
  lastValid.shape = "ok" =>
    (lastValid.ret = "true" <=> lastValid.exp - lastValid.t > BUFFER_SECONDS)

\* C2: isSessionValid never throws, and returns false for a null session, a
\* session without tokens, without an access token, with a token that cannot
\* be inspected, and with an undefined exp claim.
C2_FailsClosed ==
  lastValid # NoEvaluation =>
    /\ lastValid.ret \in {"true", "false"}
    /\ lastValid.shape \in FailClosedShapes => lastValid.ret = "false"

\* C2 witness: a token whose inspection raises was evaluated, to false.
C2_Witness == lastValid.shape = "noPayload" /\ lastValid.ret = "false"

\* C3: on a guarded route the redirect to /login is signalled at most once
\* per invalidation, counting navigate('/login') and <Navigate to="/login">.
\* (signOut is awaited before checkSession returns false, so it always
\* precedes the navigate of the same check.)
C3_RedirectOnce ==
  (requireAuth /\ lastOutcome = "invalid") => signals <= 1

\* C4: no state setter and no navigate is invoked by a monitor whose effect
\* cleanup has run.
C4_NoSetterAfterTeardown == ~lateSet

\* C5: a torn-down monitor starts no session fetch and holds no armed timer,
\* also when a check that was in flight at teardown completes afterwards.
C5_NoFetchAfterTeardown ==
  [][\A g \in Gens :
       (pc[g] # "unborn" /\ ~isMounted[g]) =>
         (fetches'[g] = fetches[g] /\ timeoutId'[g] = NoTimer)]_vars

\* C5 witness: a check that was in flight at teardown has completed.
C5_Witness == \E g \in Gens : ~isMounted[g] /\ pc[g] = "ended"

C7_AtMostOneInFlight == Cardinality(InFlight) <= 1

\* ---- the fallback executor
IdentityCalls == {i \in 1..Len(calls) : calls[i].mode = "identityPool"}
UserCalls == {i \in 1..Len(calls) : calls[i].mode = "userPool"}

\* the classification of spec section 4.2: one of three phrases, any case
AuthDenied(msg) ==
  \/ TestI(NOT_AUTHORIZED, msg)
  \/ TestI(UNAUTHORIZED, msg)
  \/ TestI(MISSING_CREDENTIALS, msg)

\* C8: when the userPool call rejects with a message containing
\* 'Not Authorized', the identityPool call is made exactly once with the same
\* arguments, and the operation ends with its data or, if it failed, fails.
C8_FallbackOnceSameArgs ==
  (Len(replies) >= 1 /\ replies[1].kind = "reject"
     /\ Contains(NOT_AUTHORIZED, replies[1].msg)) =>
    /\ Len(calls) >= 2
    /\ calls[2] = Call("identityPool", calls[1].args, FALSE)
    /\ Cardinality(IdentityCalls) = 1
    /\ dpc = "done" =>
         IF Succeeded(replies[2])
         THEN result.status = "ok" /\ result.from = 2
         ELSE result.status = "failed"

\* C9: the identityPool call is issued only after the userPool call failed
\* with an authorization-denied message; a userPool call that rejects with any
\* other message ends the operation with that failure and no further call.
C9_SecondaryOnlyOnAuthDenied ==
  /\ IdentityCalls # {} =>
       (~Succeeded(replies[1]) /\ AuthDenied(Failure(replies[1])))
  /\ (dpc = "done" /\ replies[1].kind = "reject"
        /\ ~AuthDenied(replies[1].msg)) =>
       /\ result.status = "failed"
       /\ result.msg = replies[1].msg
       /\ Len(calls) = 1

C12_ThreePhraseClassification ==
  (Len(replies) >= 1 /\ replies[1].kind = "reject") =>
    ((Len(calls) >= 2 /\ calls[2].mode = "identityPool")
       <=> AuthDenied(replies[1].msg))

\* C13: a Truck create whose response carries a non-empty error list is a
\* failure: the error is shown, the modal stays open with the form kept, and
\* lastCreated and refreshToken are unchanged.
C13_RejectedCreateNotPublished ==
  [][(adding /\ ~adding' /\ createReply'.kind = "resolve"
        /\ Len(createReply'.errors) > 0) =>
       /\ createError'.set
       /\ isAddOpen'
       /\ form' = form
       /\ lastCreated' = lastCreated
       /\ refreshToken' = refreshToken]_vars

\* ---- the user-data fetch
Providers == {e \in Execs : xkind[e] = "provider" /\ xpc[e] # "idle"}

\* the lookups by persisted id / by administrator_email in a log
ByIdAt(log) == {i \in 1..Len(log) : log[i].q = "firmById"}
ByEmailAt(log) == {i \in 1..Len(log) : log[i].q = "firmByEmail"}

\* the lookup found no firm
FoundNothing(lk) == Len(tryList(Answer(lk))) = 0

\* C14: in fetchUserData a localStorage.getItem that throws is a cache miss
\* (no lookup by id, the lookup by email follows the user lookups), a
\* setItem that throws leaves the fetch complete with userData set and error
\* null, and the fetch fails only when the attributes cannot be fetched.
C14_StorageBestEffort ==
  [][\A e \in Execs :
       xkind'[e] = "provider" =>
         /\ storageMode = "allThrow" =>
               /\ xread'[e] = NoId
               /\ ByIdAt(xlog'[e]) = {}
               /\ (xpc[e] \in {"userUL", "userIL"}
                     /\ xpc'[e] \notin {"userUL", "userIL"}
                     /\ Len(Email) > 0) => xpc'[e] = "firmEmailUL"
         /\ (xpc[e] \notin {"attrs", "done"} /\ xpc'[e] = "done"
               /\ xfirm'[e] # NoFirm /\ storageMode # "ok") =>
               /\ xout'[e].status = "ok"
               /\ userData' = xout'[e]
               /\ userError' = FALSE
         /\ (xout[e].status # "failed" /\ xout'[e].status = "failed") =>
               xpc[e] = "attrs"]_vars

\* C14 witness: with a storage whose every access throws, a fetchUserData
\* resolved the firm by email and completed with userData set.
C14_Witness ==
  \E e \in Providers :
    /\ storageMode = "allThrow"
    /\ xpc[e] = "done"
    /\ xfirm[e] # NoFirm
    /\ userData.status = "ok"
    /\ ~userError

\* C15: when a user-data fetch of any consumer has resolved a firm, the
\* firm's id is stored under 'c2b:myFirmId' when the fetch completes (the
\* storage working).
C15_ResolvedFirmStored ==
  \A e \in Execs :
    (xpc[e] = "done" /\ xfirm[e] # NoFirm /\ storageMode = "ok") =>
      storage = xfirm[e].id

\* C16: fetchUserData issues a lookup by administrator_email only when no id
\* was persisted, or after the lookups by the persisted id under userPool
\* and under identityPool both returned no firm; when a lookup by persisted
\* id returned a firm, no lookup by email is issued.
C16_IdFirstEmailFallback ==
  \A e \in Providers :
    LET log == xlog[e]
    IN /\ \A i \in ByEmailAt(log) :
            \/ xread[e] = NoId /\ ByIdAt(log) = {}
            \/ \E j \in 1..i : \E k \in 1..i :
                 /\ j < k /\ k < i
                 /\ log[j] = Lookup("firmById", "userPool", xread[e])
                 /\ log[k] = Lookup("firmById", "identityPool", xread[e])
                 /\ FoundNothing(log[j]) /\ FoundNothing(log[k])
       /\ \A j \in ByIdAt(log) :
            (j < Len(log) \/ xpc[e] = "done") /\ ~FoundNothing(log[j]) =>
              ByEmailAt(log) = {}

\* C16 witness: a persisted id that no firm has was looked up under both
\* modes, and the lookup by email followed.
C16_Witness ==
  \E e \in Providers :
    /\ xread[e] = FirmF9
    /\ Cardinality(ByIdAt(xlog[e])) = 2
    /\ ByEmailAt(xlog[e]) # {}
    /\ xpc[e] = "done"

FourLabels == {SuperManagerLabel, ManagerLabel, MemberLabel, EmptyString}

\* a and b are the same string up to letter case
EqI(a, b) ==
  Len(a) = Len(b) /\ \A i \in 1..Len(a) : ToLowerChar(a[i]) = ToLowerChar(b[i])

\* the label of a canonical code
LabelOf(code) ==
  IF code = SUPER_MANAGER THEN SuperManagerLabel
  ELSE IF code = MANAGER THEN ManagerLabel
  ELSE MemberLabel

\* C18: displayRole (AuthProvider, useUserData, Sidebar) returns, for null,
\* undefined, a number and every string, one of 'Super Manager', 'Manager',
\* 'Member' or the empty string.
C18_DisplayRoleTotal ==
  roleOut.done =>
    /\ roleOut.auth \in FourLabels
    /\ roleOut.hook \in FourLabels
    /\ roleOut.sidebar \in FourLabels

\* C18 witness: an unmatched string was normalized to the empty string.
C18_Witness ==
  /\ roleOut.done
  /\ roleIn = Value("string", <<"O", "w", "n", "e", "r">>)
  /\ roleOut.auth = EmptyString

\* C19 as stated: the canonical codes in any letter case give their label,
\* 'Admin' and 'Regular' exactly give 'Super Manager' and 'Member', and every
\* other input gives the empty string.
C19_OthersEmpty ==
  roleOut.done =>
    roleOut.auth =
      (IF EqI(StringOf(roleIn), SUPER_MANAGER) THEN SuperManagerLabel
       ELSE IF EqI(StringOf(roleIn), MANAGER) THEN ManagerLabel
       ELSE IF EqI(StringOf(roleIn), MEMBER) THEN MemberLabel
       ELSE IF roleIn = Value("string", AdminLiteral) THEN SuperManagerLabel
       ELSE IF roleIn = Value("string", RegularLiteral) THEN MemberLabel
       ELSE EmptyString)

\* C19 amended: as above, and the label 'Super Manager', on exact match,
\* gives itself; every other input gives the empty string.
C19_LabelPassesThrough ==
  roleOut.done =>
    roleOut.auth =
      (IF EqI(StringOf(roleIn), SUPER_MANAGER) THEN SuperManagerLabel
       ELSE IF EqI(StringOf(roleIn), MANAGER) THEN ManagerLabel
       ELSE IF EqI(StringOf(roleIn), MEMBER) THEN MemberLabel
       ELSE IF roleIn = Value("string", AdminLiteral) THEN SuperManagerLabel
       ELSE IF roleIn = Value("string", RegularLiteral) THEN MemberLabel
       ELSE IF roleIn = Value("string", SuperManagerLabel)
       THEN SuperManagerLabel
       ELSE EmptyString)

\* C19 witness: the label 'Super Manager' was normalized to itself.
C19_Witness ==
  /\ roleOut.done
  /\ roleIn = Value("string", SuperManagerLabel)
  /\ roleOut.auth = SuperManagerLabel

\* C20: for every stored role value the normalizer of ManageUsers returns
\* what the displayRole of AuthProvider, useUserData and Sidebar returns, and
\* the label of normalizeRoleValue when that is not null.
C20_CopiesAgree ==
  roleOut.done =>
    /\ roleOut.users = roleOut.auth
    /\ roleOut.users = roleOut.hook
    /\ roleOut.users = roleOut.sidebar
    /\ roleOut.code # <<>> => roleOut.users = LabelOf(roleOut.code)

\* C21: a fetchUserData execution and a useUserData execution that ran with
\* the same identity, the same cache content read and the same backend
\* issued the same lookups in the same order and produced the same name,
\* email, role and company.
C21_ProviderHookEquivalent ==
  \A e1 \in Execs : \A e2 \in Execs :
    (/\ xkind[e1] = "provider" /\ xkind[e2] = "hook"
     /\ xpc[e1] = "done" /\ xpc[e2] = "done"
     /\ xout[e1].status = "ok" /\ xout[e2].status = "ok"
     /\ xread[e1] = xread[e2]) =>
      /\ xlog[e1] = xlog[e2]
      /\ xout[e1] = xout[e2]

\* C22: sendResetEmail ends with a boolean on every path: true exactly when
\* the SES send succeeded, false when 'to' or 'resetUrl' is missing, when no
\* sender address is configured and when the send fails.
C22_BooleanResult ==
  mpc = "done" =>
    /\ mailResult \in {"true", "false"}
    /\ mailResult = "true" <=> sendOutcome = "ok"

\* C23: a run's re-validation timer is armed only by a check that found the
\* session valid; a check that found it invalid, or whose fetch failed, arms
\* no timer (and so starts no later fetchAuthSession or signOut).
C23_TimerOnlyAfterValid ==
  [][\A g \in Gens :
       (timeoutId'[g] # NoTimer /\ timeoutId'[g] # timeoutId[g]) =>
         lastOutcome' = "valid"]_vars

\* C24: a rejected signOut is swallowed: the step that completes the check
\* reports invalid and leaves the exposed error state as it was.
C24_SignOutFailureSwallowed ==
  [][\A g \in Gens :
       (pc[g] = "signingOut" /\ pc'[g] # "signingOut" /\ mounted) =>
         /\ lastOutcome' = "invalid"
         /\ error' = error]_vars

\* C25: when the most recent completed check found the session invalid or
\* its fetch failed, the session the hook exposes is null.
C25_NoSessionAfterInvalid ==
  lastOutcome \in {"invalid", "failed"} => session = NoSession

\* C26: the firm a completed fetchUserData execution resolved is none or a
\* firm whose administrator_email is the signed-in user's e-mail, whatever
\* id an earlier user of the browser left under 'c2b:myFirmId'.
C26_ResolvedFirmIsOwn ==
  \A e \in Providers :
    (xpc[e] = "done" /\ xout[e].status = "ok" /\ xfirm[e] # NoFirm) =>
      xfirm[e].administrator_email = Email

\* C30: isLoading is true while any fetchUserData execution of the provider
\* is in flight, and once all have ended the userData exposed is the result
\* of the execution started last.
C30_LoadingCoversAllFetches ==
  LET started == {e \in Providers : xpc[e] # "idle"}
      pending == {e \in started : xpc[e] # "done"}
      last == CHOOSE e \in started : \A o \in started : o <= e
  IN /\ pending # {} => isLoading
     /\ (started # {} /\ pending = {} /\ xout[last].status = "ok") =>
          userData = xout[last]

\* C27: when applyBulkRole ends, only the users whose remote update passed
\* have their role changed in the list; a selected user whose update failed
\* keeps its role and, if still selected, stays selected.
C27_BulkRoleOnlyWhereUpdated ==
  [][(bulkSaving /\ ~bulkSaving') =>
       \A i \in 1..Len(users) :
         /\ users'[i].role # users[i].role => users[i].id \in bulkDone'
         /\ (users[i].id \in bulkSel \ bulkDone') =>
              /\ users'[i].role = users[i].role
              /\ users[i].id \in selectedIds => users[i].id \in selectedIds']_vars

\* C28: deleteUser calls User.delete only for a user whose Cognito account
\* was deleted; a row leaves the list only when both deletions passed; a
\* deleteUser call that ends without both leaves the list and the selection
\* as they were; deletingId is null when a call that set it ends, and a call
\* that returns before the try leaves it alone.
C28_DeleteOrdered ==
  [][/\ dataTried' \subseteq cognitoGone'
     /\ \A id \in DeleteRows :
          /\ (id \in IdsOf(users) /\ id \notin IdsOf(users')) =>
               id \in cognitoGone' \cap rowGone'
          /\ (del[id] # "idle" /\ del'[id] = "idle") =>
               /\ deletingId' = Null
               /\ id \notin cognitoGone' \cap rowGone' =>
                    users' = users /\ selectedIds' = selectedIds
     /\ (ops' # ops /\ del' = del /\ bulkSaving' = bulkSaving
           /\ Len(users') = Len(users)) =>
          /\ deletingId' \in {deletingId, Null}
          /\ users' = users
          /\ selectedIds' = selectedIds]_vars

\* one deleteUser call ended after the Cognito deletion passed and the row
\* deletion failed, the row still listed; another removed its row
C28_Witness ==
  /\ deletingId = Null
  /\ \E id \in DeleteRows :
       /\ del[id] = "idle"
       /\ id \in (cognitoGone \cap dataTried) \ rowGone
       /\ id \in IdsOf(users)
  /\ \E id \in DeleteRows : id \in rowGone /\ id \notin IdsOf(users)

\* C29: the page index is in range: page >= 0 and, when the list is not
\* empty, the first row of the page exists.
C29_PageInRange ==
  /\ page >= 0
  /\ users # <<>> => page * rowsPerPage < Len(users)

====
